---- MODULE Spec2Model ----
(***************************************************************************)
(* Verification model of @apexdevlabs/contentstack: the schema -> validator *)
(* transform (fieldToZod, contentTypeToZod, contentTypeToDraftZod,          *)
(* validateEntry, validateDraft, extractMissingFields).                     *)
(*                                                                          *)
(* JavaScript values are tagged records, Zod schemas are tagged records     *)
(* built by the operators that model the builder code, and ZodParse models  *)
(* what schema.safeParse does with such a schema (zod 3 semantics: status   *)
(* valid / dirty / aborted, issues in encounter order).                     *)
(***************************************************************************)
EXTENDS Integers, Sequences, FiniteSets, TLC

(***************************************************************************)
(* Bounds of the model.                                                     *)
(***************************************************************************)
\* longest array generated for a multiple / repeated / blocks value
MaxLen == 2

(***************************************************************************)
(* JavaScript values.                                                       *)
(***************************************************************************)
Undef == [t |-> "undefined"]
Null == [t |-> "null"]
Str(s) == [t |-> "string", v |-> s]
Num(n) == [t |-> "number", v |-> n]
Bool(b) == [t |-> "boolean", v |-> b]
Arr(seq) == [t |-> "array", v |-> seq]
Obj(f) == [t |-> "object", v |-> f]
EmptyObj == Obj([key \in {} |-> Undef])

\* data[key] of a JavaScript value already known to be an object
Get(data, key) == IF key \in DOMAIN data.v THEN data.v[key] ELSE Undef

\* the object with one more own property
With(data, key, value) ==
  Obj([x \in (DOMAIN data.v) \cup {key} |-> IF x = key THEN value ELSE data.v[x]])

\* the object without the properties named in keys
Without(data, keys) == Obj([x \in (DOMAIN data.v) \ keys |-> data.v[x]])

(***************************************************************************)
(* Strings are atoms for TLC, so what the code asks of a string (a regular  *)
(* expression, a date parse) is tabulated over the strings the model uses.  *)
(***************************************************************************)
\* /^\d{4}-\d{2}-\d{2}T\d{2}:\d{2}:\d{2}(\.\d{3})?Z?$/
FullTimestampForm ==
  {"2024-01-09T23:59:59Z", "2024-01-10T00:00:00Z", "2024-06-15T12:00:00Z",
   "2024-12-31T23:59:59Z", "2025-01-01T00:00:00Z", "2024-06-15T12:00:00.000Z",
   "2024-06-15T12:00:00"}
\* /^\d{4}-\d{2}-\d{2}$/
DateOnlyForm == {"2024-01-10", "2024-06-15", "2024-12-31"}
\* z.string().datetime(): the timestamp form with the mandatory Z suffix
ZodDatetimeForm ==
  {"2024-01-09T23:59:59Z", "2024-01-10T00:00:00Z", "2024-06-15T12:00:00Z",
   "2024-12-31T23:59:59Z", "2025-01-01T00:00:00Z", "2024-06-15T12:00:00.000Z"}

\* new Date(s).getTime() in seconds from 2024-01-01T00:00:00Z; << >> is an
\* Invalid Date.  A timestamp without Z is local time: the process runs in UTC.
DateParse(s) ==
  CASE s \in {"2024-01-09T23:59:59Z"} -> <<777599>>
    [] s \in {"2024-01-10", "2024-01-10T00:00:00Z"} -> <<777600>>
    [] s \in {"2024-06-15"} -> <<14342400>>
    [] s \in {"2024-06-15T12:00:00Z", "2024-06-15T12:00:00.000Z", "2024-06-15T12:00:00"} ->
         <<14385600>>
    [] s \in {"2024-12-31"} -> <<31449600>>
    [] s \in {"2024-12-31T23:59:59Z"} -> <<31535999>>
    [] s \in {"2025-01-01T00:00:00Z"} -> <<31622400>>
    [] OTHER -> << >>

\* faulty variant: date <= startDate, endDate <= date in the range check
DateLess_OrEqual(a, b) == a # << >> /\ b # << >> /\ a[1] <= b[1]

\* a < b on Date objects: false as soon as either is an Invalid Date (NaN)
DateLess(a, b) == a # << >> /\ b # << >> /\ a[1] < b[1]

\* the patterns new RegExp(format) compiles; any other format throws a SyntaxError
WellFormedPatterns == {"^[a-z]+$", "^a"}
RegExpThrows(format) == format \notin WellFormedPatterns

\* new RegExp(pattern).test(s)
RegExpTest(pattern, s) ==
  CASE pattern = "^[a-z]+$" -> s \in {"a", "b", "ab", "draft", "live"}
    [] pattern = "^a" -> s \in {"a", "ab", "asset123"}
    [] OTHER -> FALSE

(***************************************************************************)
(* Zod schemas, as the builder code constructs them.                        *)
(***************************************************************************)
ZString(checks) == [k |-> "string", checks |-> checks]
ZNumber == [k |-> "number"]
ZBoolean == [k |-> "boolean"]
ZAny == [k |-> "any"]
ZLiteral(value) == [k |-> "literal", value |-> value]
ZEnum(values) == [k |-> "enum", values |-> values]
ZOptional(inner) == [k |-> "optional", inner |-> inner]
ZNullable(inner) == [k |-> "nullable", inner |-> inner]
\* max is << >> (no cap) or <<n>>
ZArray(element, max) == [k |-> "array", element |-> element, max |-> max]
\* shape is a sequence of [key, schema] in insertion order; unknownKeys is
\* "strip" (z.object) or "passthrough" (.passthrough() / z.looseObject)
ZObject(shape, unknownKeys) == [k |-> "object", shape |-> shape, unknownKeys |-> unknownKeys]
ZUnion(options) == [k |-> "union", options |-> options]
ZRecord == [k |-> "record"]
ZLazy(name) == [k |-> "lazy", name |-> name]
\* schema.refine(check): check names the predicate, arg carries what it closes over
ZRefine(inner, check, arg) == [k |-> "effects", inner |-> inner, check |-> check, arg |-> arg]

MinCheck(n) == [kind |-> "min", n |-> n, pattern |-> ""]
RegexCheck(pattern) == [kind |-> "regex", n |-> 0, pattern |-> pattern]
DatetimeCheck == [kind |-> "datetime", n |-> 0, pattern |-> ""]

\* shape[key] = schema on a JavaScript object: a repeated key keeps its place
\* and takes the new schema
ShapeSet(shape, key, schema) ==
  IF \E i \in 1..Len(shape) : shape[i].key = key
  THEN [i \in 1..Len(shape) |->
          IF shape[i].key = key THEN [key |-> key, schema |-> schema] ELSE shape[i]]
  ELSE Append(shape, [key |-> key, schema |-> schema])

ShapeKeys(shape) == {shape[i].key : i \in 1..Len(shape)}

(***************************************************************************)
(* What safeParse does with a schema: the parse of zod 3.  A parse returns  *)
(* a status (valid, dirty: a check failed on a value of the right type,     *)
(* aborted: the value has the wrong type), the output value and the issues  *)
(* in encounter order.  A path is a sequence of strings; an array index is  *)
(* written in decimal, as path.join(".") prints it.                         *)
(***************************************************************************)
Issue(code, path, received) == [code |-> code, path |-> path, received |-> received]
TypeIssue(path, data) == Issue("invalid_type", path, data.t)

Valid(value) == [status |-> "valid", value |-> value, issues |-> << >>]
Dirty(value, issues) == [status |-> "dirty", value |-> value, issues |-> issues]
Aborted(issues) == [status |-> "aborted", value |-> Undef, issues |-> issues]

\* ParseStatus: aborted wins over dirty, dirty over valid
Merge(a, b) ==
  IF a = "aborted" \/ b = "aborted" THEN "aborted"
  ELSE IF a = "dirty" \/ b = "dirty" THEN "dirty" ELSE "valid"

Outcome(status, value, issues) ==
  IF status = "aborted" THEN Aborted(issues)
  ELSE [status |-> status, value |-> value, issues |-> issues]

\* the predicates the builder passes to .refine()
RefinementHolds(check, arg, s) ==
  CASE check = "isoformat" -> s \in FullTimestampForm \cup DateOnlyForm
    [] check = "daterange" ->
         /\ ~(arg.start # << >> /\ DateLess(DateParse(s), arg.start[1]))
         /\ ~(arg.end # << >> /\ DateLess(arg.end[1], DateParse(s)))
    [] OTHER -> TRUE

\* one check of a ZodString on a string
StringCheckFails(check, s) ==
  CASE check.kind = "min" -> check.n > 0 /\ s = ""
    [] check.kind = "regex" -> ~RegExpTest(check.pattern, s)
    [] check.kind = "datetime" -> s \notin ZodDatetimeForm
    [] OTHER -> FALSE

StringCheckCode(check) == IF check.kind = "min" THEN "too_small" ELSE "invalid_string"

RECURSIVE StringIssues(_, _, _, _)
StringIssues(checks, i, s, path) ==
  IF i > Len(checks) THEN << >>
  ELSE (IF StringCheckFails(checks[i], s)
        THEN <<Issue(StringCheckCode(checks[i]), path, "")>> ELSE << >>)
       \o StringIssues(checks, i + 1, s, path)

\* the recursive rich-text node schema behind z.lazy (JsonRteNodeSchema)
LazySchema(name) ==
  ZObject(<<[key |-> "type", schema |-> ZOptional(ZString(<< >>))],
            [key |-> "text", schema |-> ZOptional(ZString(<< >>))],
            [key |-> "children", schema |-> ZOptional(ZArray(ZLazy(name), << >>))],
            [key |-> "attrs", schema |-> ZOptional(ZRecord)],
            [key |-> "uid", schema |-> ZOptional(ZString(<< >>))]>>,
          "passthrough")

RECURSIVE ZodParse(_, _, _)
RECURSIVE ParseShape(_, _, _)
RECURSIVE ParseElements(_, _, _)
RECURSIVE IssuesOf(_, _)
RECURSIVE ParseUnion(_, _, _, _, _)

\* the status and the issues of the parts of a value, in the order parsed
MergeAll(results) ==
  IF \E i \in 1..Len(results) : results[i].status = "aborted" THEN "aborted"
  ELSE IF \E i \in 1..Len(results) : results[i].status = "dirty" THEN "dirty"
  ELSE "valid"

IssuesOf(results, i) ==
  IF i > Len(results) THEN << >> ELSE results[i].issues \o IssuesOf(results, i + 1)

\* ZodObject: the shape keys in order; returns status, the parsed own
\* properties (a function on the keys that are set) and the issues
ParseShape(shape, data, path) ==
  LET results == [i \in 1..Len(shape) |->
                    ZodParse(shape[i].schema, Get(data, shape[i].key),
                             Append(path, shape[i].key))]
      set == {i \in 1..Len(shape) :
                results[i].value # Undef \/ shape[i].key \in DOMAIN data.v}
  IN [status |-> MergeAll(results),
      props |-> [x \in {shape[i].key : i \in set} |->
                   results[CHOOSE i \in set : shape[i].key = x].value],
      issues |-> IssuesOf(results, 1)]

\* ZodArray: every element, in index order
ParseElements(element, items, path) ==
  LET results == [i \in 1..Len(items) |->
                    ZodParse(element, items[i], Append(path, ToString(i - 1)))]
  IN [status |-> MergeAll(results),
      values |-> [i \in 1..Len(items) |-> results[i].value],
      issues |-> IssuesOf(results, 1)]

\* ZodUnion: the first option that is valid; failing that the first dirty
\* one with its issues; failing that one invalid_union issue at the path of
\* the union (the options' own issues stay inside it)
ParseUnion(options, i, data, path, dirty) ==
  IF i > Len(options)
  THEN IF dirty # << >> THEN dirty[1]
       ELSE Aborted(<<Issue("invalid_union", path, "")>>)
  ELSE LET r == ZodParse(options[i], data, path)
       IN IF r.status = "valid" THEN r
          ELSE ParseUnion(options, i + 1, data, path,
                          IF r.status = "dirty" /\ dirty = << >> THEN <<r>> ELSE dirty)

ZodParse(schema, data, path) ==
  CASE schema.k = "any" -> Valid(data)
    [] schema.k = "string" ->
         IF data.t # "string" THEN Aborted(<<TypeIssue(path, data)>>)
         ELSE LET issues == StringIssues(schema.checks, 1, data.v, path)
              IN IF issues = << >> THEN Valid(data) ELSE Dirty(data, issues)
    [] schema.k = "number" ->
         IF data.t # "number" THEN Aborted(<<TypeIssue(path, data)>>) ELSE Valid(data)
    [] schema.k = "boolean" ->
         IF data.t # "boolean" THEN Aborted(<<TypeIssue(path, data)>>) ELSE Valid(data)
    [] schema.k = "literal" ->
         IF data = Str(schema.value) THEN Valid(data)
         ELSE Aborted(<<Issue("invalid_literal", path, "")>>)
    [] schema.k = "enum" ->
         IF data.t # "string" THEN Aborted(<<TypeIssue(path, data)>>)
         ELSE IF \E j \in 1..Len(schema.values) : schema.values[j] = data.v THEN Valid(data)
         ELSE Aborted(<<Issue("invalid_enum_value", path, "")>>)
    [] schema.k = "optional" ->
         IF data.t = "undefined" THEN Valid(Undef) ELSE ZodParse(schema.inner, data, path)
    [] schema.k = "nullable" ->
         IF data.t = "null" THEN Valid(Null) ELSE ZodParse(schema.inner, data, path)
    [] schema.k = "record" ->
         IF data.t # "object" THEN Aborted(<<TypeIssue(path, data)>>) ELSE Valid(data)
    [] schema.k = "lazy" -> ZodParse(LazySchema(schema.name), data, path)
    [] schema.k = "effects" ->
         LET inner == ZodParse(schema.inner, data, path)
         IN IF inner.status = "aborted" THEN inner
            ELSE IF RefinementHolds(schema.check, schema.arg, inner.value.v) THEN inner
            ELSE Dirty(inner.value, inner.issues \o <<Issue("custom", path, "")>>)
    [] schema.k = "array" ->
         IF data.t # "array" THEN Aborted(<<TypeIssue(path, data)>>)
         ELSE LET tooBig == schema.max # << >> /\ Len(data.v) > schema.max[1]
                  els == ParseElements(schema.element, data.v, path)
              IN Outcome(Merge(IF tooBig THEN "dirty" ELSE "valid", els.status),
                         Arr(els.values),
                         (IF tooBig THEN <<Issue("too_big", path, "")>> ELSE << >>)
                           \o els.issues)
    [] schema.k = "object" ->
         IF data.t # "object" THEN Aborted(<<TypeIssue(path, data)>>)
         ELSE LET known == ParseShape(schema.shape, data, path)
                  extra == IF schema.unknownKeys = "passthrough"
                           THEN (DOMAIN data.v) \ ShapeKeys(schema.shape) ELSE {}
              IN Outcome(known.status,
                         Obj([x \in (DOMAIN known.props) \cup extra |->
                                IF x \in DOMAIN known.props THEN known.props[x]
                                ELSE data.v[x]]),
                         known.issues)
    [] schema.k = "union" -> ParseUnion(schema.options, 1, data, path, << >>)

\* schema.safeParse(data): success only when the status is valid
SafeParse(schema, data) ==
  LET r == ZodParse(schema, data, << >>)
  IN IF r.status = "valid"
     THEN [kind |-> "success", data |-> r.value, issues |-> << >>]
     ELSE [kind |-> "failure", data |-> Undef, issues |-> r.issues]

(***************************************************************************)
(* Content types (types.ts).  An optional list attribute (schema, blocks,   *)
(* enum.choices) is Absent or List(items); an optional scalar attribute     *)
(* that the code only tests for truthiness is its falsy value when unset    *)
(* ("" for format / startDate / endDate / reference_to / display_name /    *)
(* title, 0 for max_instance,                                               *)
(* FALSE for mandatory / multiple / allow_rich_text / allow_json_rte).      *)
(***************************************************************************)
Absent == [present |-> FALSE, items |-> << >>]
List(items) == [present |-> TRUE, items |-> items]

\* list || []
OrEmpty(list) == IF list.present THEN list.items ELSE << >>

FieldDefaults ==
  [mandatory |-> FALSE, multiple |-> FALSE, choices |-> Absent, schema |-> Absent,
   blocks |-> Absent, allow_rich_text |-> FALSE, allow_json_rte |-> FALSE, multiline |-> FALSE,
   format |-> "", startDate |-> "", endDate |-> "", max_instance |-> 0,
   display_name |-> ""]

\* a ContentstackField: the attributes given, every other one unset
Field(uid, data_type, attrs) == [uid |-> uid, data_type |-> data_type] @@ attrs @@ FieldDefaults

\* a ContentstackBlock
Block(uid, reference_to, schema) ==
  [uid |-> uid, title |-> "", reference_to |-> reference_to, schema |-> schema]

\* a ContentstackContentType value as the caller passes it: null, undefined,
\* or an object whose schema attribute is absent, null or a list
ContentType(schema) == [t |-> "object", schema_t |-> "array", schema |-> schema]
ContentTypeNull == [t |-> "null", schema_t |-> "undefined", schema |-> << >>]
ContentTypeUndefined == [t |-> "undefined", schema_t |-> "undefined", schema |-> << >>]
ContentTypeNoSchema == [t |-> "object", schema_t |-> "undefined", schema |-> << >>]
ContentTypeNullSchema == [t |-> "object", schema_t |-> "null", schema |-> << >>]

(***************************************************************************)
(* The shared schema constants of the module.                               *)
(***************************************************************************)
UID == ZString(<<MinCheck(1)>>)

\* createLooseObject(shape): z.looseObject(shape) or z.object(shape).passthrough()
createLooseObject(shape) == ZObject(shape, "passthrough")

AssetSchema ==
  createLooseObject(<<[key |-> "uid", schema |-> UID],
                      [key |-> "url", schema |-> ZOptional(ZString(<< >>))]>>)

ReferenceSchema ==
  createLooseObject(<<[key |-> "uid", schema |-> UID],
                      [key |-> "_content_type_uid", schema |-> ZOptional(ZString(<< >>))]>>)

LinkSchema ==
  ZObject(<<[key |-> "title", schema |-> ZOptional(ZString(<< >>))],
            [key |-> "href", schema |-> ZOptional(ZString(<< >>))]>>, "passthrough")

\* createDatetimeSchema(): z.string().refine(date-only or full timestamp)
createDatetimeSchema == ZRefine(ZString(<< >>), "isoformat", << >>)
IsoDateSchema == createDatetimeSchema

TaxonomySchema ==
  ZArray(ZObject(<<[key |-> "taxonomy_uid", schema |-> ZString(<< >>)],
                   [key |-> "term_uid", schema |-> ZString(<< >>)]>>, "strip"), << >>)

JsonRteNodeSchema == ZLazy("JsonRteNodeSchema")

JsonRteSchema ==
  ZObject(<<[key |-> "type", schema |-> ZLiteral("doc")],
            [key |-> "uid", schema |-> ZOptional(ZString(<< >>))],
            [key |-> "attrs", schema |-> ZOptional(ZRecord)],
            [key |-> "children", schema |-> ZArray(JsonRteNodeSchema, << >>)]>>,
          "passthrough")

\* the _metadata property of a repeated group instance and of a block
MetadataSchema ==
  ZOptional(ZObject(<<[key |-> "uid", schema |-> ZOptional(ZString(<< >>))]>>, "passthrough"))

(***************************************************************************)
(* fieldToZod, case by case.  A schema under construction is a Zod schema   *)
(* or Thrown, the exception that left the builder.                          *)
(***************************************************************************)
Thrown == [k |-> "throw"]

\* faulty variant: new RegExp(field.format) outside any try
TryRegex_Uncaught(schema, format) ==
  IF RegExpThrows(format) THEN Thrown ELSE ZString(schema.checks \o <<RegexCheck(format)>>)

\* try { schema = schema.regex(new RegExp(field.format)) } catch { }
TryRegex(schema, format) ==
  IF RegExpThrows(format) THEN schema ELSE ZString(schema.checks \o <<RegexCheck(format)>>)

\* case "text"
TextSchema(field) ==
  IF field.allow_rich_text THEN ZString(<< >>)
  ELSE IF Len(OrEmpty(field.choices)) > 0 THEN ZEnum(OrEmpty(field.choices))
  ELSE IF field.format # "" THEN TryRegex(ZString(<< >>), field.format)
  ELSE ZString(<< >>)

\* case "isodate"
DateSchema(field) ==
  IF field.startDate # "" \/ field.endDate # ""
  THEN ZRefine(ZString(<<DatetimeCheck>>), "daterange",
               [start |-> IF field.startDate # "" THEN <<DateParse(field.startDate)>> ELSE << >>,
                end |-> IF field.endDate # "" THEN <<DateParse(field.endDate)>> ELSE << >>])
  ELSE IsoDateSchema

\* case "json"
JsonSchema(field) == IF field.allow_json_rte THEN JsonRteSchema ELSE ZAny

\* case "file"
FileSchema(isUpsertMode) == IF isUpsertMode THEN ZString(<< >>) ELSE AssetSchema

\* z.object(groupShape).passthrough(), wrapped when the group repeats
GroupSchema(field, groupShape) ==
  LET shape == IF field.multiple THEN ShapeSet(groupShape, "_metadata", MetadataSchema)
               ELSE groupShape
      object == ZObject(shape, "passthrough")
  IN IF field.multiple
     THEN ZArray(object, IF field.max_instance > 0 THEN <<field.max_instance>> ELSE << >>)
     ELSE object

\* one variant of a blocks field that carries an inline schema
BlockVariant(block, blockShape) ==
  ZObject(<<[key |-> block.uid,
             schema |-> ZObject(ShapeSet(blockShape, "_metadata", MetadataSchema),
                                "passthrough")]>>, "passthrough")

\* one variant of a blocks field that refers to a global field
ReferenceVariant(block) ==
  ZObject(<<[key |-> block.uid, schema |-> ReferenceSchema]>>, "passthrough")

\* the array over no, one or several variants
BlocksSchema(blockSchemas) ==
  IF Len(blockSchemas) = 0 THEN ZArray(ZAny, << >>)
  ELSE IF Len(blockSchemas) = 1 THEN ZArray(blockSchemas[1], << >>)
  ELSE ZArray(ZUnion(blockSchemas), << >>)

\* if (field.multiple && data_type is neither group nor blocks) schema = z.array(schema)
WrapMultiple(field, schema) ==
  IF field.multiple /\ field.data_type # "group" /\ field.data_type # "blocks"
  THEN ZArray(schema, << >>) ELSE schema

\* if (!field.mandatory) schema = schema.nullable().optional()
WrapOptional(field, schema) ==
  IF ~field.mandatory THEN ZOptional(ZNullable(schema)) ELSE schema

RECURSIVE fieldToZod(_, _)
RECURSIVE FieldsShape(_, _, _, _)
RECURSIVE BlockSchemas(_, _, _)

\* the assignments of one run of the loop after those of another: a key of the
\* first run keeps its place and takes the later schema, a new key is appended
ShapeAssign(shape, later) ==
  [i \in 1..Len(shape) |->
     IF \E j \in 1..Len(later) : later[j].key = shape[i].key
     THEN later[CHOOSE j \in 1..Len(later) : later[j].key = shape[i].key]
     ELSE shape[i]]
    \o SelectSeq(later, LAMBDA e : e.key \notin ShapeKeys(shape))

\* for (const subField of fields) shape[subField.uid] = fieldToZod(subField, options)
\* (the fields lo..hi, as two halves)
FieldsShape(fields, lo, hi, options) ==
  IF lo > hi THEN << >>
  ELSE IF lo = hi
  THEN ShapeSet(<< >>, fields[lo].uid, fieldToZod(fields[lo], options))
  ELSE ShapeAssign(FieldsShape(fields, lo, (lo + hi) \div 2, options),
                   FieldsShape(fields, (lo + hi) \div 2 + 1, hi, options))

\* (field.blocks || []).map(block => ...)
BlockSchemas(blocks, i, options) ==
  IF i > Len(blocks) THEN << >>
  ELSE <<IF blocks[i].reference_to # "" THEN ReferenceVariant(blocks[i])
         ELSE BlockVariant(blocks[i],
                           FieldsShape(OrEmpty(blocks[i].schema), 1,
                                       Len(OrEmpty(blocks[i].schema)), options))>>
       \o BlockSchemas(blocks, i + 1, options)

fieldToZod(field, options) ==
  LET isUpsertMode == options = "upsert"
      schema ==
        CASE field.data_type = "text" -> TextSchema(field)
          [] field.data_type = "number" -> ZNumber
          [] field.data_type = "boolean" -> ZBoolean
          [] field.data_type = "isodate" -> DateSchema(field)
          [] field.data_type = "json" -> JsonSchema(field)
          [] field.data_type = "file" -> FileSchema(isUpsertMode)
          [] field.data_type = "link" -> LinkSchema
          [] field.data_type \in {"reference", "global_field"} -> ReferenceSchema
          [] field.data_type = "taxonomy" -> TaxonomySchema
          [] field.data_type = "group" ->
               GroupSchema(field, FieldsShape(OrEmpty(field.schema), 1,
                                              Len(OrEmpty(field.schema)), options))
          [] field.data_type = "blocks" ->
               BlocksSchema(BlockSchemas(OrEmpty(field.blocks), 1, options))
          [] OTHER -> ZAny
  IN WrapOptional(field, WrapMultiple(field, schema))

\* an exception raised while a schema was being built leaves the builder
RECURSIVE Throws(_)
Throws(schema) ==
  CASE schema.k = "throw" -> TRUE
    [] schema.k \in {"optional", "nullable", "effects"} -> Throws(schema.inner)
    [] schema.k = "array" -> Throws(schema.element)
    [] schema.k = "object" -> \E i \in 1..Len(schema.shape) : Throws(schema.shape[i].schema)
    [] schema.k = "union" -> \E i \in 1..Len(schema.options) : Throws(schema.options[i])
    [] OTHER -> FALSE

(***************************************************************************)
(* The entry points.  A builder returns Built(schema) or Raised; a          *)
(* validate call returns a success, a failure or Raised.                    *)
(***************************************************************************)
NoCall == [kind |-> "none", schema |-> ZAny, data |-> Undef, issues |-> << >>]
Raised == [kind |-> "throw", schema |-> ZAny, data |-> Undef, issues |-> << >>]
Built(schema) == [kind |-> "schema", schema |-> schema, data |-> Undef, issues |-> << >>]
Result(r) == [kind |-> r.kind, schema |-> ZAny, data |-> r.data, issues |-> r.issues]

\* faulty variant: only the content type itself is tested, a missing list reads as empty
NoSchemaList_ListNotTested(contentType) == contentType.t # "object"

\* !contentType?.schema
NoSchemaList(contentType) == contentType.t # "object" \/ contentType.schema_t # "array"

\* faulty variant: the top level built like a group, z.object(shape).passthrough()
TopObject_Passthrough(shape) == ZObject(shape, "passthrough")

\* z.object(shape) of the top level: unknown keys are stripped
TopObject(shape) == ZObject(shape, "strip")

contentTypeToZod(contentType, options) ==
  IF NoSchemaList(contentType) THEN Raised
  ELSE LET shape == FieldsShape(contentType.schema, 1, Len(contentType.schema), options)
       IN IF \E i \in 1..Len(shape) : Throws(shape[i].schema) THEN Raised
          ELSE Built(TopObject(shape))

\* faulty variant: .partial() left out
Partial_LeftOut(object) == object

\* schema.partial(): every key of this object becomes optional, its own
\* schema unchanged
Partial(object) ==
  ZObject([i \in 1..Len(object.shape) |->
             [key |-> object.shape[i].key, schema |-> ZOptional(object.shape[i].schema)]],
          object.unknownKeys)

contentTypeToDraftZod(contentType, options) ==
  LET full == contentTypeToZod(contentType, options)
  IN IF full.kind = "throw" THEN Raised ELSE Built(Partial(full.schema))

\* faulty variant: data: result in place of data: result.data
validateEntry_WrapsResult(contentType, entry) ==
  LET built == contentTypeToZod(contentType, "")
      result == SafeParse(built.schema, entry)
  IN IF built.kind = "throw" THEN Raised
     ELSE IF result.kind = "success"
     THEN Result([result EXCEPT !.data = Obj([success |-> Bool(TRUE), data |-> result.data])])
     ELSE Result(result)

\* schema.safeParse(entry), then the result re-wrapped
validateEntry(contentType, entry) ==
  LET built == contentTypeToZod(contentType, "")
  IN IF built.kind = "throw" THEN Raised ELSE Result(SafeParse(built.schema, entry))

validateDraft(contentType, entry) ==
  LET built == contentTypeToDraftZod(contentType, "")
  IN IF built.kind = "throw" THEN Raised ELSE Result(SafeParse(built.schema, entry))

\* path.join(".")
RECURSIVE Join(_)
Join(path) ==
  IF Len(path) = 0 THEN ""
  ELSE IF Len(path) = 1 THEN path[1]
  ELSE path[1] \o "." \o Join(Tail(path))

\* issue.code === "invalid_type" and received === "undefined"
IsMissing(issue) == issue.code = "invalid_type" /\ issue.received = "undefined"

RECURSIVE extractMissingFields(_)
extractMissingFields(issues) ==
  IF Len(issues) = 0 THEN << >>
  ELSE (IF IsMissing(Head(issues)) THEN <<Join(Head(issues).path)>> ELSE << >>)
       \o extractMissingFields(Tail(issues))

(***************************************************************************)
(* The Markdown renderer (entryToMarkdown, jsonRteToMarkdown and their      *)
(* helpers).  A string the renderer builds is a sequence of lines (the      *)
(* string split at "\n"), each line a sequence of tokens; tokens are never  *)
(* empty, and a token is either whitespace only (Blanks) or free of         *)
(* leading and trailing whitespace, so that trim() and split("\n") can be   *)
(* computed.  A call that raises a TypeError yields the text with throw     *)
(* set, and every text built from it has throw set too.                     *)
(***************************************************************************)
Blanks == {" ", "  "}

Text(lines) == [throw |-> FALSE, lines |-> lines]
TypeError == [throw |-> TRUE, lines |-> << << >> >>]
\* ""
EmptyText == Text(<< << >> >>)
\* a string of one token
Tok(s) == IF s = "" THEN EmptyText ELSE Text(<< <<s>> >>)
\* a string of one line
Toks(tokens) == Text(<<SelectSeq(tokens, LAMBDA s : s # "")>>)
\* "\n"
NewLine == Text(<< << >>, << >> >>)

\* a + b
Cat(a, b) ==
  IF a.throw \/ b.throw THEN TypeError
  ELSE Text(SubSeq(a.lines, 1, Len(a.lines) - 1)
            \o <<a.lines[Len(a.lines)] \o b.lines[1]>>
            \o Tail(b.lines))

\* the texts one after the other (the first half, then the second)
RECURSIVE CatAll(_)
CatAll(texts) ==
  IF Len(texts) = 0 THEN EmptyText
  ELSE IF Len(texts) = 1 THEN Cat(texts[1], EmptyText)
  ELSE Cat(CatAll(SubSeq(texts, 1, Len(texts) \div 2)),
           CatAll(SubSeq(texts, Len(texts) \div 2 + 1, Len(texts))))

\* the lists one after the other
RECURSIVE Flatten(_)
Flatten(lists) ==
  IF Len(lists) = 0 THEN << >>
  ELSE IF Len(lists) = 1 THEN lists[1] \o << >>
  ELSE Flatten(SubSeq(lists, 1, Len(lists) \div 2))
         \o Flatten(SubSeq(lists, Len(lists) \div 2 + 1, Len(lists)))

\* texts.join(sep)
RECURSIVE JoinText(_, _)
JoinText(texts, sep) ==
  IF Len(texts) = 0 THEN EmptyText
  ELSE IF Len(texts) = 1 THEN Cat(texts[1], EmptyText)
  ELSE Cat(JoinText(SubSeq(texts, 1, Len(texts) \div 2), sep),
           Cat(sep, JoinText(SubSeq(texts, Len(texts) \div 2 + 1, Len(texts)), sep)))

\* if (text): the string is not ""
NonEmptyText(text) == text.lines # << << >> >>

BlankLine(line) == \A i \in 1..Len(line) : line[i] \in Blanks

RECURSIVE TrimStartLine(_)
TrimStartLine(line) ==
  IF Len(line) > 0 /\ Head(line) \in Blanks THEN TrimStartLine(Tail(line)) ELSE line

RECURSIVE TrimEndLine(_)
TrimEndLine(line) ==
  IF Len(line) > 0 /\ line[Len(line)] \in Blanks
  THEN TrimEndLine(SubSeq(line, 1, Len(line) - 1)) ELSE line

RECURSIVE TrimStart(_)
TrimStart(lines) ==
  IF Len(lines) > 1 /\ BlankLine(lines[1]) THEN TrimStart(Tail(lines))
  ELSE <<TrimStartLine(lines[1])>> \o Tail(lines)

RECURSIVE TrimEnd(_)
TrimEnd(lines) ==
  IF Len(lines) > 1 /\ BlankLine(lines[Len(lines)])
  THEN TrimEnd(SubSeq(lines, 1, Len(lines) - 1))
  ELSE SubSeq(lines, 1, Len(lines) - 1) \o <<TrimEndLine(lines[Len(lines)])>>

\* text.trim()
Trim(text) == IF text.throw THEN TypeError ELSE Text(TrimEnd(TrimStart(text.lines)))

\* text.split("\n").join("\n" + prefix)
PrefixLines(text, prefix) ==
  IF text.throw THEN TypeError
  ELSE Text([i \in 1..Len(text.lines) |->
               IF i = 1 THEN text.lines[i] ELSE prefix \o text.lines[i]])

\* text.length
RECURSIVE LineLength(_)
LineLength(line) == IF Len(line) = 0 THEN 0 ELSE Len(Head(line)) + LineLength(Tail(line))
RECURSIVE LinesLength(_)
LinesLength(lines) ==
  IF Len(lines) = 0 THEN 0
  ELSE LineLength(Head(lines)) + (IF Len(lines) > 1 THEN 1 ELSE 0) + LinesLength(Tail(lines))
TextLength(text) == LinesLength(text.lines)

\* every token of the text
Tokens(text) == UNION {{text.lines[i][j] : j \in 1..Len(text.lines[i])} : i \in 1..Len(text.lines)}

(***************************************************************************)
(* What JavaScript does with a value the renderer meets.                    *)
(***************************************************************************)
\* Number(value) that is no number
NaN == [t |-> "number", v |-> 0, nan |-> TRUE]

\* if (value)
Truthy(value) ==
  CASE value.t \in {"undefined", "null"} -> FALSE
    [] value.t = "string" -> value.v # ""
    [] value.t = "number" -> value.v # 0 /\ value # NaN
    [] value.t = "boolean" -> value.v
    [] OTHER -> TRUE

\* value.prop: reading a property of undefined or null raises
Readable(value) == value.t \notin {"undefined", "null"}
\* value[key] of a readable value
Prop(value, key) == IF value.t = "object" THEN Get(value, key) ELSE Undef

\* String(value), `${value}`
RECURSIVE StringOf(_)
StringOf(value) ==
  CASE value.t = "string" -> Tok(value.v)
    [] value.t = "number" -> IF value = NaN THEN Tok("NaN") ELSE Tok(ToString(value.v))
    [] value.t = "boolean" -> Tok(IF value.v THEN "true" ELSE "false")
    [] value.t = "array" ->
         JoinText([i \in 1..Len(value.v) |->
                     IF Readable(value.v[i]) THEN StringOf(value.v[i]) ELSE EmptyText],
                  Tok(","))
    [] value.t = "object" -> Tok("[object Object]")
    [] OTHER -> Tok(value.t)

\* Number(value)
NumberOf(value) ==
  CASE value.t = "number" -> value
    [] value.t = "boolean" -> [t |-> "number", v |-> IF value.v THEN 1 ELSE 0]
    [] value.t = "null" -> [t |-> "number", v |-> 0]
    [] value.t = "string" /\ value.v \in Blanks \cup {""} -> [t |-> "number", v |-> 0]
    [] value.t = "array" /\ Len(value.v) = 1 /\ value.v[1].t = "number" -> value.v[1]
    [] OTHER -> NaN

\* n.toLocaleString("en-US") of an integer
Pad3(k) ==
  IF k < 10 THEN "00" \o ToString(k) ELSE IF k < 100 THEN "0" \o ToString(k) ELSE ToString(k)
RECURSIVE Grouped(_)
Grouped(n) ==
  IF n < 0 THEN "-" \o Grouped(0 - n)
  ELSE IF n < 1000 THEN ToString(n)
  ELSE Grouped(n \div 1000) \o "," \o Pad3(n % 1000)

\* faulty variant: the quotient cut off after one decimal
ToFixed1_Truncated(n, unit) ==
  [whole |-> n \div unit, tenth |-> (n \div (unit \div 10)) % 10]

\* (n / unit).toFixed(1): the quotient to the nearest tenth, as its whole part
\* and its decimal; a quotient half-way between two tenths goes up
ToFixed1(n, unit) ==
  LET tenths == (n \div (unit \div 10))
                + (IF 2 * (n % (unit \div 10)) >= unit \div 10 THEN 1 ELSE 0)
  IN [whole |-> tenths \div 10, tenth |-> tenths % 10]

\* fixed.replace(/\.0$/, "")
DropDotZero(fixed) ==
  IF fixed.tenth = 0 THEN ToString(fixed.whole)
  ELSE ToString(fixed.whole) \o "." \o ToString(fixed.tenth)

formatNumberWithCommas(num) ==
  IF num = NaN THEN "NaN"
  ELSE IF num.v >= 1000000000 THEN DropDotZero(ToFixed1(num.v, 1000000000)) \o "B"
  ELSE IF num.v >= 1000000 THEN DropDotZero(ToFixed1(num.v, 1000000)) \o "M"
  ELSE Grouped(num.v)

\* date.toLocaleDateString("en-US", {year, month: "long", day}), the process in UTC
LongDate(s) ==
  CASE s \in {"2024-06-15", "2024-06-15T12:00:00Z"} -> "June 15, 2024"
    [] s \in {"2024-01-10"} -> "January 10, 2024"
    [] OTHER -> s

formatDateHuman(isoDate) == IF DateParse(isoDate) = << >> THEN isoDate ELSE LongDate(isoDate)

\* isEmpty(value)
isEmpty(value) ==
  \/ value.t \in {"undefined", "null"}
  \/ value.t = "string" /\ value.v \in Blanks \cup {""}
  \/ value.t = "array" /\ Len(value.v) = 0

\* key.startsWith("_"), over the keys the model uses
StartsWithUnderscore(key) ==
  key \in {"_metadata", "_version", "_in_progress", "_embedded_items", "_content_type_uid",
           "_note"}

\* token.replace(/\|/g, "\\|"), over the tokens of the model that hold a "|"
EscapePipes(token) ==
  CASE token = "|" -> "\\|"
    [] token = "a|b" -> "a\\|b"
    [] OTHER -> token

\* the lines of a text on one line, each "\n" turned into " "
RECURSIVE OneLine(_)
OneLine(lines) ==
  IF Len(lines) = 1 THEN lines[1] ELSE lines[1] \o <<" ">> \o OneLine(Tail(lines))

\* escapeTableCell(text)
escapeTableCell(text) ==
  IF text.throw THEN TypeError
  ELSE LET line == OneLine(text.lines)
       IN Text(<<[i \in 1..Len(line) |-> EscapePipes(line[i])]>>)

\* heading(text, level)
Hashes(level) == [i \in 1..level |-> "#"]

\* faulty variant: the level is raised to 1 but not lowered to 6
heading_FloorOnly(text, level) ==
  Cat(Toks(Hashes(IF level < 1 THEN 1 ELSE level) \o <<" ">>), text)

\* faulty variant: the level is used as it is given
heading_Unclamped(text, level) == Cat(Toks(Hashes(level) \o <<" ">>), text)

\* heading(text, level)
heading(text, level) ==
  LET safeLevel == IF level < 1 THEN 1 ELSE IF level > 6 THEN 6 ELSE level
  IN Cat(Toks(Hashes(safeLevel) \o <<" ">>), text)

\* node.attrs?.key
Attr(node, key) ==
  IF Readable(Prop(node, "attrs")) THEN Prop(Prop(node, "attrs"), key) ELSE Undef

\* (a as string) || (b as string) || fallback, inside a template
FirstTruthy(values, fallback) ==
  IF \E i \in 1..Len(values) : Truthy(values[i])
  THEN StringOf(values[CHOOSE i \in 1..Len(values) :
                         Truthy(values[i]) /\ \A j \in 1..(i - 1) : ~Truthy(values[j])])
  ELSE Tok(fallback)

\* the grave accent, the code fence and the em dash, which a string of this
\* language cannot hold
Backtick == "<grave>"
Fence == "<grave><grave><grave>"
EmDash == "<emdash>"
MiddleDot == "<middot>"

\* faulty variant: code is applied first, bold fifth
Marks_CodeInnermost ==
  <<[key |-> "code", open |-> <<Backtick>>, close |-> <<Backtick>>],
    [key |-> "italic", open |-> <<"*">>, close |-> <<"*">>],
    [key |-> "underline", open |-> <<"<u>">>, close |-> <<"</u>">>],
    [key |-> "strikethrough", open |-> <<"~~">>, close |-> <<"~~">>],
    [key |-> "bold", open |-> <<"**">>, close |-> <<"**">>],
    [key |-> "superscript", open |-> <<"<sup>">>, close |-> <<"</sup>">>],
    [key |-> "subscript", open |-> <<"<sub>">>, close |-> <<"</sub>">>]>>

\* the inline marks of a text node, innermost first
Marks ==
  <<[key |-> "bold", open |-> <<"**">>, close |-> <<"**">>],
    [key |-> "italic", open |-> <<"*">>, close |-> <<"*">>],
    [key |-> "underline", open |-> <<"<u>">>, close |-> <<"</u>">>],
    [key |-> "strikethrough", open |-> <<"~~">>, close |-> <<"~~">>],
    [key |-> "code", open |-> <<Backtick>>, close |-> <<Backtick>>],
    [key |-> "superscript", open |-> <<"<sup>">>, close |-> <<"</sup>">>],
    [key |-> "subscript", open |-> <<"<sub>">>, close |-> <<"</sub>">>]>>

RECURSIVE Marked(_, _, _)
Marked(node, text, i) ==
  IF i > Len(Marks) THEN text
  ELSE Marked(node,
              IF Truthy(Prop(node, Marks[i].key))
              THEN CatAll(<<Toks(Marks[i].open), text, Toks(Marks[i].close)>>) ELSE text,
              i + 1)

TwoNewLines == Cat(NewLine, NewLine)

\* the rows of a table node: the children of type tr or row; reading the type
\* of a null child raises
RowsOf(children) ==
  SelectSeq(children, LAMBDA c : Readable(c) /\ Prop(c, "type") \in {Str("tr"), Str("row")})

\* row.children || []
ChildrenOf(node) ==
  IF Truthy(Prop(node, "children")) THEN Prop(node, "children") ELSE Arr(<< >>)

RECURSIVE jsonRteToMarkdown(_)
jsonRteToMarkdown(node) ==
  IF ~Truthy(node) THEN EmptyText
  ELSE IF node.t \in {"string", "number", "boolean"} THEN TypeError
  ELSE IF Prop(node, "text").t = "string" THEN Marked(node, Tok(Prop(node, "text").v), 1)
  ELSE IF ChildrenOf(node).t # "array" THEN TypeError
  ELSE
    LET children == ChildrenOf(node).v
        each == [i \in 1..Len(children) |-> jsonRteToMarkdown(children[i])]
        childContent == CatAll(each)
        type == IF Prop(node, "type").t = "string" THEN Prop(node, "type").v ELSE ""
        headings == [h1 |-> 1, h2 |-> 2, h3 |-> 3, h4 |-> 4, h5 |-> 5, h6 |-> 6]
    IN CASE type = "doc" -> Trim(childContent)
         [] type = "p" -> Cat(childContent, TwoNewLines)
         [] type \in DOMAIN headings ->
              CatAll(<<Toks(Hashes(headings[type]) \o <<" ">>), childContent, TwoNewLines>>)
         [] type = "blockquote" ->
              CatAll(<<Toks(<<">", " ">>), PrefixLines(Trim(childContent), <<">", " ">>),
                       TwoNewLines>>)
         [] type = "ul" ->
              Cat(JoinText([i \in 1..Len(children) |-> Cat(Toks(<<"-", " ">>), Trim(each[i]))],
                           NewLine), TwoNewLines)
         [] type = "ol" ->
              Cat(JoinText([i \in 1..Len(children) |->
                              Cat(Toks(<<ToString(i) \o ".", " ">>), Trim(each[i]))],
                           NewLine), TwoNewLines)
         [] type = "li" -> Trim(childContent)
         [] type \in {"code_block", "code"} ->
              CatAll(<<Tok(Fence), FirstTruthy(<<Attr(node, "language")>>, ""), NewLine,
                       Trim(childContent), NewLine, Tok(Fence), TwoNewLines>>)
         [] type = "hr" -> Cat(Tok("---"), TwoNewLines)
         [] type \in {"a", "link"} ->
              CatAll(<<Tok("["), childContent, Tok("]("),
                       FirstTruthy(<<Attr(node, "url"), Attr(node, "href")>>, ""), Tok(")")>>)
         [] type \in {"img", "image"} ->
              CatAll(<<Tok("!["), FirstTruthy(<<Attr(node, "alt")>>, "Image"), Tok("]("),
                       FirstTruthy(<<Attr(node, "src"), Attr(node, "url")>>, ""), Tok(")"),
                       TwoNewLines>>)
         [] type = "table" ->
              IF childContent.throw \/ \E i \in 1..Len(children) : ~Readable(children[i])
              THEN TypeError
              ELSE IF Len(RowsOf(children)) = 0 THEN EmptyText
              ELSE IF \E i \in 1..Len(RowsOf(children)) :
                        ChildrenOf(RowsOf(children)[i]).t # "array"
              THEN TypeError
              ELSE
                LET rows == RowsOf(children)
                    TableRow(cells) ==
                      CatAll(<<Toks(<<"|", " ">>), JoinText(cells, Toks(<<" ", "|", " ">>)),
                               Toks(<<" ", "|">>)>>)
                    tableRows ==
                      [i \in 1..Len(rows) |->
                         TableRow([j \in 1..Len(ChildrenOf(rows[i]).v) |->
                                     escapeTableCell(Trim(jsonRteToMarkdown(
                                                       ChildrenOf(rows[i]).v[j])))])]
                    separator ==
                      TableRow([j \in 1..Len(ChildrenOf(rows[1]).v) |-> Tok("---")])
                IN Cat(JoinText(<<tableRows[1], separator>> \o Tail(tableRows), NewLine),
                       TwoNewLines)
         [] OTHER -> childContent

(***************************************************************************)
(* The renderer's options.  A MarkdownOptions value is a record over some   *)
(* of the option names; formatDate and formatNumber hold the name of the    *)
(* function given: the default one, or a function of the caller's that      *)
(* returns String(value).                                                   *)
(***************************************************************************)
VARIABLES
  DEFAULT_OPTIONS,  \* the module's default options
  SYSTEM_FIELDS     \* the module's set of system field uids

SystemFieldUids ==
  {"uid", "locale", "created_at", "updated_at", "created_by", "updated_by", "ACL",
   "_version", "_in_progress", "_embedded_items", "publish_details", "_metadata", "tags"}

DefaultOptions ==
  [headingLevel |-> 1, formatDate |-> "formatDateHuman",
   formatNumber |-> "formatNumberWithCommas", skipEmpty |-> TRUE,
   includeSystemFields |-> FALSE, useTables |-> TRUE, titleField |-> "title",
   descriptionField |-> "meta_description"]

\* the keys the options object holds with the value undefined; the record of
\* the options lists them under "undefined" and gives the other keys their
\* values
UndefinedKeys(options) == IF "undefined" \in DOMAIN options THEN options.undefined ELSE {}

\* an option that is undefined, as the renderer uses it: skipEmpty,
\* includeSystemFields and useTables are only tested for truth, where
\* undefined counts as false; titleField and descriptionField are only used as
\* a property key, where undefined reads the property "undefined"; formatDate
\* and formatNumber are only called
UndefinedOption(key) ==
  CASE key \in {"skipEmpty", "includeSystemFields", "useTables"} -> FALSE
    [] key \in {"titleField", "descriptionField", "formatDate", "formatNumber"} -> "undefined"

\* { ...defaults, ...options }: a key of options replaces the default, also
\* when its value is undefined
Spread(defaults, options) ==
  [key \in DOMAIN defaults |->
     IF key \in UndefinedKeys(options) THEN UndefinedOption(key)
     ELSE IF key \in DOMAIN options THEN options[key]
     ELSE defaults[key]]

\* options.formatNumber(num)
FormatNumber(options, num) ==
  IF options.formatNumber = "undefined" THEN TypeError
  ELSE IF options.formatNumber = "formatNumberWithCommas" THEN Tok(formatNumberWithCommas(num))
  ELSE StringOf(num)

\* options.formatDate(isoDate)
FormatDate(options, isoDate) ==
  IF isoDate.throw \/ options.formatDate = "undefined" THEN TypeError
  ELSE IF options.formatDate = "formatDateHuman" /\ Len(isoDate.lines[1]) = 1
  THEN Tok(formatDateHuman(isoDate.lines[1][1]))
  ELSE isoDate

\* s.startsWith("image/"), over the content types of the model
StartsWithImage(s) == s \in {"image/png", "image/"}

\* isImageAsset(asset) raises: content_type is truthy and no string
ImageAssetRaises(asset) ==
  Truthy(Prop(asset, "content_type")) /\ Prop(asset, "content_type").t # "string"

isImageAsset(asset) ==
  /\ Truthy(Prop(asset, "content_type"))
  /\ Prop(asset, "content_type").t = "string"
  /\ StartsWithImage(Prop(asset, "content_type").v)

hasNestedGroups(schema) ==
  \E i \in 1..Len(schema) : schema[i].data_type \in {"group", "blocks"}

\* the own keys of an object in the order Object.keys lists them; the model's
\* objects do not record it, so the order is a fixed one of the model's choosing
KeysOf(object) ==
  CHOOSE keys \in [1..Cardinality(DOMAIN object.v) -> DOMAIN object.v] :
    \A i, j \in DOMAIN keys : i # j => keys[i] # keys[j]

\* the lines of one member of an array or object: indented, the key before
\* it, a comma after it unless it is the last
Member(lines, pad, key, last) ==
  LET first == pad \o <<"  ">> \o key \o lines[1]
      all == <<first>> \o Tail(lines)
  IN IF last THEN all
     ELSE SubSeq(all, 1, Len(all) - 1) \o <<all[Len(all)] \o <<",">> >>

\* JSON.stringify(value, null, 2) as lines; pad is the indentation of the
\* line the value starts on
RECURSIVE Stringify(_, _)
Stringify(value, pad) ==
  CASE value.t = "string" -> << <<"\"" \o value.v \o "\"">> >>
    [] value.t = "number" -> << <<IF value = NaN THEN "null" ELSE ToString(value.v)>> >>
    [] value.t = "boolean" -> << <<IF value.v THEN "true" ELSE "false">> >>
    [] value.t = "array" ->
         IF Len(value.v) = 0 THEN << <<"[]">> >>
         ELSE << <<"[">> >>
              \o Flatten([i \in 1..Len(value.v) |->
                            Member(Stringify(value.v[i], pad \o <<"  ">>), pad, << >>,
                                   i = Len(value.v))])
              \o <<pad \o <<"]">> >>
    [] value.t = "object" ->
         LET defined == Obj([k \in {x \in DOMAIN value.v : value.v[x] # Undef} |-> value.v[k]])
             keys == KeysOf(defined)
         IN IF Len(keys) = 0 THEN << <<"{}">> >>
            ELSE << <<"{">> >>
                 \o Flatten([i \in 1..Len(keys) |->
                               Member(Stringify(value.v[keys[i]], pad \o <<"  ">>), pad,
                                      <<"\"" \o keys[i] \o "\":", " ">>, i = Len(keys))])
                 \o <<pad \o <<"}">> >>
    [] OTHER -> << <<"null">> >>

\* primitiveToMarkdown(value, field, options)
primitiveToMarkdown(value, field, options) ==
  IF isEmpty(value) THEN EmptyText
  ELSE
    CASE field.data_type = "text" ->
           IF value.t = "array"
           THEN JoinText([i \in 1..Len(value.v) |->
                            CatAll(<<Tok(Backtick), StringOf(value.v[i]), Tok(Backtick)>>)],
                         Toks(<<" ", MiddleDot, " ">>))
           ELSE StringOf(value)
      [] field.data_type = "number" -> FormatNumber(options, NumberOf(value))
      [] field.data_type = "boolean" -> Tok(IF Truthy(value) THEN "**Yes**" ELSE "**No**")
      [] field.data_type = "isodate" -> FormatDate(options, StringOf(value))
      [] field.data_type = "link" ->
           IF Truthy(Prop(value, "href"))
           THEN CatAll(<<Tok("["), FirstTruthy(<<Prop(value, "title"), Prop(value, "href")>>, ""),
                         Tok("]("), StringOf(Prop(value, "href")), Tok(")")>>)
           ELSE FirstTruthy(<<Prop(value, "title")>>, "")
      [] field.data_type = "file" ->
           IF ~Truthy(Prop(value, "url"))
           THEN FirstTruthy(<<Prop(value, "title"), Prop(value, "filename")>>, "")
           ELSE IF ImageAssetRaises(value) THEN TypeError
           ELSE IF isImageAsset(value)
           THEN CatAll(<<Tok("!["),
                         FirstTruthy(<<Prop(value, "title"), Prop(value, "filename")>>, "Image"),
                         Tok("]("), StringOf(Prop(value, "url")), Tok(")")>>)
           ELSE CatAll(<<Tok("["),
                         FirstTruthy(<<Prop(value, "title"), Prop(value, "filename")>>, "File"),
                         Tok("]("), StringOf(Prop(value, "url")), Tok(")")>>)
      [] field.data_type \in {"reference", "global_field"} ->
           IF Truthy(Prop(value, "title")) THEN StringOf(Prop(value, "title"))
           ELSE Cat(Toks(<<"uid:", " ">>), StringOf(Prop(value, "uid")))
      [] field.data_type = "json" ->
           IF field.allow_json_rte THEN jsonRteToMarkdown(value)
           ELSE Text(<< <<Fence \o "json">> >> \o Stringify(value, << >>) \o << <<Fence>> >>)
      [] field.data_type = "taxonomy" ->
           IF value.t # "array" \/ \E i \in 1..Len(value.v) : ~Readable(value.v[i])
           THEN TypeError
           ELSE JoinText([i \in 1..Len(value.v) |->
                            Cat(Toks(<<"-", " ">>), StringOf(Prop(value.v[i], "term_uid")))],
                         NewLine)
      [] OTHER -> StringOf(value)

\* lines.push(...) made only if (rendered); a raise inside rendered is kept
IfRendered(rendered, pushed) ==
  IF rendered.throw THEN <<TypeError>>
  ELSE IF NonEmptyText(rendered) THEN pushed ELSE << >>

\* SYSTEM_FIELDS.has(field.uid) && !options.includeSystemFields
SkippedAsSystem(field, options) == field.uid \in SYSTEM_FIELDS /\ ~options.includeSystemFields

\* field.display_name || field.uid
Label(field) == IF field.display_name # "" THEN field.display_name ELSE field.uid

\* `**${label}:** ${rendered}`
Labelled(field, rendered) == Cat(Toks(<<"**", Label(field), ":**", " ">>), rendered)

\* the fields of a group that are not skipped as system fields
VisibleFields(schema, options) == SelectSeq(schema, LAMBDA f : ~SkippedAsSystem(f, options))

\* of those, the fields that are not skipped as empty
ShownFields(value, schema, options) ==
  SelectSeq(VisibleFields(schema, options),
    LAMBDA f : ~(options.skipEmpty /\ isEmpty(Prop(value, f.uid))))

\* field.data_type === "file" && fieldValue && fieldValue.url
FileWithUrl(fieldValue, field) ==
  field.data_type = "file" /\ Truthy(fieldValue) /\ Truthy(Prop(fieldValue, "url"))

\* the image a group table shows above the table for the field
TableImageLines(fieldValue, field) ==
  IF ~FileWithUrl(fieldValue, field) THEN << >>
  ELSE IF ImageAssetRaises(fieldValue) THEN <<TypeError>>
  ELSE IF isImageAsset(fieldValue)
  THEN <<CatAll(<<Toks(<<"![", Label(field), "](">>), StringOf(Prop(fieldValue, "url")),
                  Tok(")")>>)>>
  ELSE << >>

\* `| **${label}** | ${rendered} |`
TableRowOf(field, rendered) ==
  IfRendered(rendered,
    <<CatAll(<<Toks(<<"|", " ", "**">>), escapeTableCell(Tok(Label(field))),
               Toks(<<"**", " ", "|", " ">>), escapeTableCell(rendered), Toks(<<" ", "|">>)>>)>>)

\* the row a group table shows for the field
TableRowLines(fieldValue, field, options) ==
  IF FileWithUrl(fieldValue, field) /\ (ImageAssetRaises(fieldValue) \/ isImageAsset(fieldValue))
  THEN << >>
  ELSE TableRowOf(field, primitiveToMarkdown(fieldValue, field, options))

\* the images, a blank line, and the table when it has a row
TableText(imageLines, rows) ==
  JoinText(
    (IF Len(imageLines) > 0
     THEN <<JoinText(imageLines, Cat(NewLine, NewLine)), EmptyText>> ELSE << >>)
    \o (IF Len(rows) > 0
        THEN <<JoinText(<<Toks(<<"|", " ", "Field", " ", "|", " ", "Value", " ", "|">>),
                          Toks(<<"|", "-------", "|", "-------", "|">>)>> \o rows, NewLine)>>
        ELSE << >>),
    NewLine)

\* the lines each of the fields gives, one after the other
TableLinesOf(value, fields, options, images) ==
  Flatten([i \in 1..Len(fields) |->
             IF images THEN TableImageLines(Prop(value, fields[i].uid), fields[i])
             ELSE TableRowLines(Prop(value, fields[i].uid), fields[i], options)])

\* groupToTable(value, schema, options)
groupToTable(value, schema, options) ==
  IF Len(VisibleFields(schema, options)) > 0 /\ ~Readable(value) THEN TypeError
  ELSE TableText(TableLinesOf(value, ShownFields(value, schema, options), options, TRUE),
                 TableLinesOf(value, ShownFields(value, schema, options), options, FALSE))

\* for (const item of values): the items, or a raise for a value that cannot
\* be iterated; a string yields its characters
Iterable(values) == values.t \in {"array", "string"}
ItemsIn(values) ==
  IF values.t = "array" THEN values.v ELSE [i \in 1..Len(values.v) |-> Str("c")]

\* repeatableGroupToTable(values, schema, options)
repeatableGroupToTable(values, schema, options) ==
  IF ~Truthy(values) \/ (values.t = "array" /\ Len(values.v) = 0) THEN EmptyText
  ELSE
    LET visibleFields ==
          SelectSeq(schema, LAMBDA f : /\ f.uid \notin SYSTEM_FIELDS
                                       /\ (options.includeSystemFields
                                           \/ ~StartsWithUnderscore(f.uid)))
        TableRow(cells) ==
          CatAll(<<Toks(<<"|", " ">>), JoinText(cells, Toks(<<" ", "|", " ">>)),
                   Toks(<<" ", "|">>)>>)
    IN IF Len(visibleFields) = 0 THEN EmptyText
       ELSE IF ~Iterable(values) THEN TypeError
       ELSE
         LET items == ItemsIn(values)
             Cell(item, field) ==
               IF ~Readable(item) THEN TypeError
               ELSE IF isEmpty(Prop(item, field.uid)) THEN EmptyText
               ELSE escapeTableCell(primitiveToMarkdown(Prop(item, field.uid), field, options))
         IN JoinText(
              <<TableRow([j \in 1..Len(visibleFields) |-> Tok(Label(visibleFields[j]))]),
                TableRow([j \in 1..Len(visibleFields) |-> Tok("---")])>>
              \o [i \in 1..Len(items) |->
                    TableRow([j \in 1..Len(visibleFields) |-> Cell(items[i], visibleFields[j])])],
              NewLine)

\* Object.keys(blockItem).find((k) => !k.startsWith("_")), "" for none
BlockKey(blockItem) ==
  IF blockItem.t # "object" \/ \A k \in DOMAIN blockItem.v : StartsWithUnderscore(k) THEN ""
  ELSE LET keys == KeysOf(blockItem)
       IN keys[CHOOSE i \in 1..Len(keys) :
                 /\ ~StartsWithUnderscore(keys[i])
                 /\ \A j \in 1..(i - 1) : StartsWithUnderscore(keys[j])]

\* blockDefs.find((b) => b.uid === blockKey)
HasBlockDef(blockDefs, blockKey) == \E i \in 1..Len(blockDefs) : blockDefs[i].uid = blockKey
BlockDef(blockDefs, blockKey) ==
  blockDefs[CHOOSE i \in 1..Len(blockDefs) :
              /\ blockDefs[i].uid = blockKey
              /\ \A j \in 1..(i - 1) : blockDefs[j].uid # blockKey]

\* blockSchema.find((f) => f.data_type === "text" && f.mandatory), as a list
\* of at most one field
FirstTextField(blockSchema) ==
  LET found == SelectSeq(blockSchema, LAMBDA f : f.data_type = "text" /\ f.mandatory)
  IN IF Len(found) = 0 THEN << >> ELSE <<found[1]>>

\* what blocksToMarkdown pushes for a field of a block rendered as rendered
BlockPrimitiveLines(fieldValue, field, rendered) ==
  IfRendered(rendered,
    <<IF field.data_type = "file" /\ Readable(fieldValue) /\ Truthy(Prop(fieldValue, "url"))
      THEN rendered
      ELSE IF field.data_type = "json" /\ field.allow_json_rte
      THEN Cat(Toks(<<">", " ">>), PrefixLines(Trim(rendered), <<">", " ">>))
      ELSE IF field.multiline \/ (field.data_type = "text" /\ TextLength(rendered) > 100)
      THEN Cat(Toks(<<">", " ">>), rendered)
      ELSE Labelled(field, rendered),
      EmptyText>>)

\* what blocksToMarkdown pushes for one field of a block
BlockFieldLines(fieldValue, field, options) ==
  IF options.skipEmpty /\ isEmpty(fieldValue) THEN << >>
  ELSE BlockPrimitiveLines(fieldValue, field, primitiveToMarkdown(fieldValue, field, options))

\* the fields of a block the field loop renders: not a system field, not the
\* field already shown in the heading
BlockFields(blockSchema, firstTextField, options) ==
  SelectSeq(blockSchema,
    LAMBDA f : /\ ~SkippedAsSystem(f, options)
               /\ ~(Len(firstTextField) = 1 /\ f.uid = firstTextField[1].uid))

\* the heading of a block item
BlockHeading(blockTitle, titleValue, level) ==
  <<heading(IF Truthy(titleValue)
            THEN CatAll(<<Tok(blockTitle), Toks(<<":", " ">>), StringOf(titleValue)>>)
            ELSE Tok(blockTitle), level),
    EmptyText>>

\* the lines of a block keyed "quote"
QuoteLines(quoteText, attribution) ==
  IF ~Truthy(quoteText) THEN << >>
  ELSE <<CatAll(<<Toks(<<">", " ", "*\"">>), StringOf(quoteText), Tok("\"*")>>)>>
       \o (IF Truthy(attribution)
           THEN <<Tok(">"),
                  CatAll(<<Toks(<<">", " ", EmDash, " ", "**">>), StringOf(attribution),
                           Tok("**")>>)>>
           ELSE << >>)
       \o <<EmptyText>>

\* what a block item of the definition pushes on lines
BlockDefLines(blockKey, blockDef, blockValue, fields, level, options) ==
  IF ~Readable(blockValue)
     /\ (Len(FirstTextField(OrEmpty(blockDef.schema))) = 1 \/ blockKey = "quote"
         \/ Len(fields) > 0)
  THEN <<TypeError>>
  ELSE BlockHeading(IF blockDef.title # "" THEN blockDef.title ELSE blockKey,
                    IF Len(FirstTextField(OrEmpty(blockDef.schema))) = 1 /\ Readable(blockValue)
                    THEN Prop(blockValue, FirstTextField(OrEmpty(blockDef.schema))[1].uid)
                    ELSE Null,
                    level)
       \o (IF blockKey = "quote"
           THEN QuoteLines(Prop(blockValue, "quote_text"), Prop(blockValue, "attribution"))
           ELSE Flatten([i \in 1..Len(fields) |->
                          BlockFieldLines(Prop(blockValue, fields[i].uid), fields[i], options)]))
       \o <<Tok("---"), EmptyText>>

\* what one block item pushes on lines
BlockLines(blockItem, blockDefs, level, options) ==
  IF ~Readable(blockItem) THEN <<TypeError>>
  ELSE IF BlockKey(blockItem) = "" \/ ~HasBlockDef(blockDefs, BlockKey(blockItem)) THEN << >>
  ELSE BlockDefLines(BlockKey(blockItem), BlockDef(blockDefs, BlockKey(blockItem)),
                     Prop(blockItem, BlockKey(blockItem)),
                     BlockFields(OrEmpty(BlockDef(blockDefs, BlockKey(blockItem)).schema),
                                 FirstTextField(OrEmpty(BlockDef(blockDefs,
                                                                 BlockKey(blockItem)).schema)),
                                 options),
                     level, options)

\* faulty variant: the separator pushed after the last instance is kept
WithoutLastSeparator_Kept(lines) == lines

\* the trailing separator removed: lines.splice(lines.length - 2, 1)
WithoutLastSeparator(lines) ==
  IF Len(lines) >= 2 /\ lines[Len(lines) - 1] = Tok("---")
  THEN SubSeq(lines, 1, Len(lines) - 2) \o <<lines[Len(lines)]>>
  ELSE lines

\* blocksToMarkdown(blocks, blockDefs, level, options)
blocksToMarkdown(blocks, blockDefs, level, options) ==
  IF ~Truthy(blocks) \/ (blocks.t = "array" /\ Len(blocks.v) = 0) THEN EmptyText
  ELSE IF ~Iterable(blocks) THEN TypeError
  ELSE Trim(JoinText(WithoutLastSeparator(
         Flatten([i \in 1..Len(ItemsIn(blocks)) |->
                    BlockLines(ItemsIn(blocks)[i], blockDefs, level, options)])), NewLine))

\* what groupToHeadings pushes for a primitive field rendered as rendered
HeadingsPrimitiveLines(fieldValue, field, rendered) ==
  IfRendered(rendered,
    (IF field.data_type = "file" /\ Readable(fieldValue) /\ Truthy(Prop(fieldValue, "url"))
     THEN <<rendered>>
     ELSE IF field.data_type = "json" /\ field.allow_json_rte
     THEN <<Toks(<<"**", Label(field), ":**">>), EmptyText, rendered>>
     ELSE <<Labelled(field, rendered)>>)
    \o <<EmptyText>>)

\* groupToHeadings(value, schema, level, options)
RECURSIVE groupToHeadings(_, _, _, _)

\* what groupToHeadings pushes for one field
HeadingsFieldLines(fieldValue, field, level, options) ==
  IF field.data_type = "group" /\ ~field.multiple
  THEN <<heading(Tok(Label(field)), level), EmptyText,
         IF hasNestedGroups(OrEmpty(field.schema)) \/ ~options.useTables
         THEN groupToHeadings(fieldValue, OrEmpty(field.schema), level + 1, options)
         ELSE groupToTable(fieldValue, OrEmpty(field.schema), options),
         EmptyText>>
  ELSE IF field.data_type = "group"
  THEN <<heading(Tok(Label(field)), level), EmptyText,
         repeatableGroupToTable(fieldValue, OrEmpty(field.schema), options), EmptyText>>
  ELSE IF field.data_type = "blocks"
  THEN <<heading(Tok(Label(field)), level), EmptyText,
         blocksToMarkdown(fieldValue, OrEmpty(field.blocks), level + 1, options)>>
  ELSE HeadingsPrimitiveLines(fieldValue, field, primitiveToMarkdown(fieldValue, field, options))

\* the lines each of the fields gives, one after the other
HeadingsLinesOf(value, fields, level, options) ==
  Flatten([i \in 1..Len(fields) |->
             HeadingsFieldLines(Prop(value, fields[i].uid), fields[i], level, options)])

groupToHeadings(value, schema, level, options) ==
  IF Len(VisibleFields(schema, options)) > 0 /\ ~Readable(value) THEN TypeError
  ELSE Trim(JoinText(HeadingsLinesOf(value, ShownFields(value, schema, options), level, options),
                     NewLine))

\* a section of the entry: separator, heading of the field, body
Section(field, fieldLevel, body) ==
  <<Tok("---"), EmptyText, heading(Tok(Label(field)), fieldLevel), EmptyText, body, EmptyText>>

\* faulty variant: the rule is pushed for a section only, never for a
\* multiple text field
PrimitiveLines_SectionRuleOnly(field, fieldLevel, rendered) ==
  IfRendered(rendered,
    IF field.data_type = "file" \/ (field.data_type = "json" /\ field.allow_json_rte)
    THEN Section(field, fieldLevel, rendered)
    ELSE <<Labelled(field, rendered), EmptyText>>)

\* what the field walk pushes for a primitive field rendered as rendered
PrimitiveLines(field, fieldLevel, rendered) ==
  IfRendered(rendered,
    IF field.data_type = "file" \/ (field.data_type = "json" /\ field.allow_json_rte)
    THEN Section(field, fieldLevel, rendered)
    ELSE IF field.multiple /\ field.data_type = "text"
    THEN <<Tok("---"), EmptyText, Labelled(field, rendered), EmptyText>>
    ELSE <<Labelled(field, rendered), EmptyText>>)

\* what the field walk of entryToMarkdown pushes for one field
FieldLines(fieldValue, field, fieldLevel, opts) ==
  IF field.data_type = "group" /\ ~field.multiple
  THEN Section(field, fieldLevel,
         IF hasNestedGroups(OrEmpty(field.schema)) \/ ~opts.useTables
         THEN groupToHeadings(fieldValue, OrEmpty(field.schema), fieldLevel + 1, opts)
         ELSE groupToTable(fieldValue, OrEmpty(field.schema), opts))
  ELSE IF field.data_type = "group"
  THEN Section(field, fieldLevel,
         repeatableGroupToTable(fieldValue, OrEmpty(field.schema), opts))
  ELSE IF field.data_type = "blocks"
  THEN Section(field, fieldLevel,
         blocksToMarkdown(fieldValue, OrEmpty(field.blocks), fieldLevel + 1, opts))
  ELSE PrimitiveLines(field, fieldLevel, primitiveToMarkdown(fieldValue, field, opts))

\* the fields the walk of entryToMarkdown does not skip
WalkedFields(entry, schema, opts) ==
  SelectSeq(schema,
    LAMBDA f : /\ f.uid \notin {opts.titleField, opts.descriptionField}
               /\ ~SkippedAsSystem(f, opts)
               /\ ~(opts.skipEmpty /\ isEmpty(Prop(entry, f.uid))))

\* the title heading and the description blockquote
TitleLines(titleValue, descValue, opts) ==
  (IF Truthy(titleValue) /\ titleValue.t = "string"
   THEN <<heading(StringOf(titleValue), opts.headingLevel), EmptyText>> ELSE << >>)
  \o (IF Truthy(descValue) /\ descValue.t = "string"
      THEN <<Cat(Toks(<<">", " ">>), StringOf(descValue)), EmptyText>> ELSE << >>)

\* the body of entryToMarkdown once opts is resolved
RenderEntry(entry, contentType, opts) ==
  IF contentType.t # "object" \/ ~Readable(entry) \/ contentType.schema_t # "array"
  THEN TypeError
  ELSE Trim(JoinText(
         TitleLines(Prop(entry, opts.titleField), Prop(entry, opts.descriptionField), opts)
         \o Flatten([i \in 1..Len(WalkedFields(entry, contentType.schema, opts)) |->
                       FieldLines(Prop(entry, WalkedFields(entry, contentType.schema, opts)[i].uid),
                                  WalkedFields(entry, contentType.schema, opts)[i],
                                  opts.headingLevel + 1, opts)]),
         NewLine))

\* faulty variant: the options given are assigned into the module's defaults
DefaultsAfter_Assigned(defaults, options) == options @@ defaults

\* DEFAULT_OPTIONS once entryToMarkdown has resolved its options: the spread
\* builds a new object and leaves the defaults as they were
DefaultsAfter(defaults, options) == defaults

\* entryToMarkdown(entry, contentType, options); options is the record of the
\* options given, the empty record when the argument is left out
entryToMarkdown(entry, contentType, options) ==
  RenderEntry(entry, contentType, Spread(DEFAULT_OPTIONS, options))

(***************************************************************************)
(* The content types the model builds validators for.                       *)
(***************************************************************************)
Mandatory == [mandatory |-> TRUE]
Optional == [mandatory |-> FALSE]

BlogPost ==
  ContentType(<<Field("title", "text", Mandatory),
                Field("views", "number", Mandatory)>>)

Landing ==
  ContentType(<<Field("seo", "group",
                  [schema |-> List(<<Field("meta", "group",
                      [mandatory |-> TRUE,
                       schema |-> List(<<Field("keyword", "text", Mandatory)>>)])>>)])>>)

Profile ==
  ContentType(<<Field("author", "group",
                  [mandatory |-> TRUE,
                   schema |-> List(<<Field("name", "text", Mandatory),
                                     Field("active", "boolean", Optional)>>)])>>)

Squad ==
  ContentType(<<Field("teams", "group",
                  [mandatory |-> TRUE, multiple |-> TRUE, max_instance |-> 1,
                   schema |-> List(<<Field("name", "text", Mandatory)>>)])>>)

HeroBlock == Block("hero", "", List(<<Field("headline", "text", Mandatory)>>))
RelatedBlock == Block("related", "related_links", Absent)

Page ==
  ContentType(<<Field("sections", "blocks",
                  [mandatory |-> TRUE, blocks |-> List(<<HeroBlock, RelatedBlock>>)])>>)

Banner ==
  ContentType(<<Field("sections", "blocks", [blocks |-> List(<<HeroBlock>>)])>>)

Media == ContentType(<<Field("image", "file", Mandatory)>>)

Album == ContentType(<<Field("gallery", "file", [multiple |-> TRUE])>>)

Scoreboard ==
  ContentType(<<Field("scores", "number", [mandatory |-> TRUE, multiple |-> TRUE])>>)

Widget ==
  ContentType(<<Field("data", "json", Mandatory),
                Field("custom", "extension", Mandatory)>>)

Catalog ==
  ContentType(<<Field("status", "text",
                  [mandatory |-> TRUE, choices |-> List(<<"draft", "live">>)]),
                Field("slug", "text", [format |-> "^[a-z]+$"])>>)

Event ==
  ContentType(<<Field("starts", "isodate", Mandatory),
                Field("ends", "isodate",
                  [startDate |-> "2024-01-10T00:00:00Z", endDate |-> "2024-12-31T23:59:59Z"])>>)

Links ==
  ContentType(<<Field("cta", "link", Mandatory),
                Field("related", "reference", Optional)>>)

Tagged == ContentType(<<Field("topics", "taxonomy", Mandatory)>>)

Story ==
  ContentType(<<Field("body", "json", [mandatory |-> TRUE, allow_json_rte |-> TRUE]),
                Field("teaser", "text", [allow_rich_text |-> TRUE, format |-> "^a"])>>)

\* a select field that also carries a format
Coded ==
  ContentType(<<Field("code", "text",
                  [choices |-> List(<<"LIVE", "draft">>), format |-> "^[a-z]+$"])>>)

\* field definitions that are malformed or leave out what their type needs
BrokenText ==
  ContentType(<<Field("slug", "text", [mandatory |-> TRUE, format |-> "["]),
                Field("kind", "text", [choices |-> List(<< >>)])>>)

BrokenDate ==
  ContentType(<<Field("when", "isodate", [startDate |-> "tomorrow", endDate |-> "never"])>>)

BrokenNest ==
  ContentType(<<Field("box", "group", Mandatory),
                Field("sections", "blocks", Mandatory)>>)

Blank == ContentType(<< >>)

WithSchemaList ==
  {BlogPost, Landing, Profile, Squad, Page, Banner, Media, Album, Scoreboard, Widget,
   Catalog, Coded, Event, Links, Tagged, Story, BrokenText, BrokenDate, BrokenNest, Blank}

WithoutSchemaList ==
  {ContentTypeNull, ContentTypeUndefined, ContentTypeNoSchema, ContentTypeNullSchema}

ContentTypes == WithSchemaList \cup WithoutSchemaList

\* SchemaOptions.mode; "" is options (or mode) left out
Modes == {"", "read", "upsert"}

(***************************************************************************)
(* The entries the model validates: for each content type, every object     *)
(* that gives each declared field one of a few values of its own type or of *)
(* another (or leaves it out), with and without an undeclared key, and a    *)
(* few values that are not objects at all.  lean drops some of the values   *)
(* of a field that sits inside an array.                                    *)
(***************************************************************************)
Asset == Obj([uid |-> Str("asset123"), url |-> Str("https://cdn/a.png")])
Term == Obj([taxonomy_uid |-> Str("topic"), term_uid |-> Str("news")])
Meta == Obj([uid |-> Str("m1"), deleted |-> Bool(TRUE)])
Doc == Obj([type |-> Str("doc"),
            children |-> Arr(<<Obj([type |-> Str("p"),
                                    children |-> Arr(<<Obj([text |-> Str("a")])>>)])>>)])

\* every array of at most MaxLen of the items
Arrays(items) == {Arr(seq) : seq \in UNION {[1..n -> items] : n \in 0..MaxLen}}

\* the objects that hold every one of the fields with a value of its type
Complete(objects, fields) ==
  {object \in objects :
     \A i \in 1..Len(fields) :
       /\ fields[i].uid \in DOMAIN object.v
       /\ object.v[fields[i].uid].t \notin {"number", "undefined"}}

RECURSIVE Samples(_, _)
RECURSIVE Candidates(_, _)
RECURSIVE Objects(_, _, _)
RECURSIVE BlockItems(_, _)

\* the objects over the first i fields
Objects(fields, i, lean) ==
  IF i = 0 THEN {EmptyObj}
  ELSE {IF value = Undef THEN object ELSE With(object, fields[i].uid, value) :
          object \in Objects(fields, i - 1, lean), value \in Candidates(fields[i], lean)}

\* values for one occurrence of the field's base type
Samples(field, lean) ==
  CASE field.data_type = "text" ->
         IF Len(OrEmpty(field.choices)) > 0
         THEN {Str(field.choices.items[1]), Str("a"), Num(7)}
         ELSE IF lean THEN {Str("a"), Num(7)} ELSE {Str("a"), Str("B2"), Num(7)}
    [] field.data_type = "number" -> {Num(7), Str("a")}
    [] field.data_type = "boolean" -> {Bool(TRUE), Str("a")}
    [] field.data_type = "isodate" ->
         {Str("2024-06-15"), Str("2024-06-15T12:00:00Z"), Str("a")}
         \cup (IF field.startDate = "" /\ field.endDate = "" THEN {Str("2024-06-15T12:00:00")}
               ELSE {Str(s) : s \in FullTimestampForm})
    [] field.data_type = "json" ->
         IF field.allow_json_rte
         THEN {Doc, Obj([type |-> Str("p"), children |-> Arr(<< >>)]), Str("a")}
         ELSE {Str("a"), EmptyObj}
    [] field.data_type = "file" ->
         IF lean THEN {Str("asset123"), Asset}
         ELSE {Str("asset123"), Str(""), Asset, With(Asset, "title", Str("logo")),
               Obj([uid |-> Str("asset123")]), Obj([uid |-> Str("")]),
               Obj([url |-> Str("https://cdn/a.png")]),
               Obj([uid |-> Str("asset123"), url |-> Num(7)])}
    [] field.data_type = "link" ->
         {Obj([title |-> Str("a"), href |-> Str("/a"), target |-> Str("_blank")]),
          Obj([title |-> Num(7)]), Str("a")}
    [] field.data_type \in {"reference", "global_field"} ->
         {Obj([uid |-> Str("e1"), title |-> Str("a")]), Obj([uid |-> Str("")]), Str("a")}
    [] field.data_type = "taxonomy" ->
         {Arr(<<Term>>), Arr(<<With(Term, "name", Str("News"))>>),
          Arr(<<Obj([taxonomy_uid |-> Str("topic")])>>), Str("a")}
         \cup (IF lean THEN {}
               ELSE {Arr(<<With(Term, "term_uid", Str(""))>>),
                     Arr(<<Term, With(Term, "taxonomy_uid", Str(""))>>),
                     Arr(<<With(Term, "term_uid", Num(7))>>), Arr(<<Str("news")>>),
                     Arr(<< >>)})
    [] field.data_type = "group" ->
         LET plain == Objects(OrEmpty(field.schema), Len(OrEmpty(field.schema)), lean)
         IN plain
            \cup {IF field.multiple
                  THEN With(With(object, "_metadata", Meta), "extra", Str("x"))
                  ELSE With(object, "extra", Str("x")) :
                    object \in IF lean THEN Complete(plain, OrEmpty(field.schema)) ELSE plain}
            \cup (IF field.multiple
                  THEN {With(object, "_metadata", Obj([uid |-> Num(7)])) :
                          object \in Complete(plain, OrEmpty(field.schema))}
                  ELSE {})
            \cup (IF lean THEN {} ELSE {Str("a")})
    [] field.data_type = "blocks" -> BlockItems(OrEmpty(field.blocks), 1)
    [] OTHER -> {Str("a"), Num(7)}

\* an item of the first declared variant with a payload that fits it
FirstItem(blocks) ==
  LET block == blocks[1]
      plain == Objects(OrEmpty(block.schema), Len(OrEmpty(block.schema)), TRUE)
      payload == IF block.reference_to # ""
                 THEN Obj([uid |-> Str("e1"), title |-> Str("a")])
                 ELSE CHOOSE object \in Complete(plain, OrEmpty(block.schema)) : TRUE
  IN Obj([key \in {block.uid} |-> payload])

\* items of two keys: a declared one with an undeclared one, and the first
\* two declared ones
TwoKeyItems(blocks) ==
  IF Len(blocks) = 0 THEN {}
  ELSE {With(FirstItem(blocks), "unknown", EmptyObj)}
       \cup (IF Len(blocks) < 2 THEN {}
             ELSE {With(FirstItem(blocks), blocks[2].uid,
                        Obj([uid |-> Str("e1"), title |-> Str("a")]))})

\* the items of a blocks value: one per declared variant and payload, and one
\* of no declared variant
BlockItems(blocks, i) ==
  IF i > Len(blocks) THEN {Obj([unknown |-> EmptyObj])} \cup TwoKeyItems(blocks)
  ELSE LET block == blocks[i]
           plain == Objects(OrEmpty(block.schema), Len(OrEmpty(block.schema)), TRUE)
           payloads ==
             IF block.reference_to # ""
             THEN {Obj([uid |-> Str("e1"), title |-> Str("a")]), Obj([uid |-> Str("")])}
             ELSE plain \cup {With(With(object, "_metadata", Meta), "extra", Str("x")) :
                                object \in Complete(plain, OrEmpty(block.schema))}
       IN {Obj([key \in {block.uid} |-> payload]) : payload \in payloads}
          \cup BlockItems(blocks, i + 1)

\* the values an entry may hold under the field's uid; Undef is the key left out
Candidates(field, lean) ==
  LET repeated == field.multiple \/ field.data_type = "blocks"
  IN {Undef} \cup (IF lean THEN {} ELSE {Null})
     \cup (IF repeated THEN Arrays(Samples(field, TRUE)) \cup {Str("a")}
           ELSE Samples(field, lean))

Entries(contentType) ==
  LET plain == Objects(contentType.schema, Len(contentType.schema), FALSE)
  IN plain \cup {With(object, "extra", Str("x")) : object \in plain}
     \cup {Undef, Null, Str("a"), Arr(<< >>)}

(***************************************************************************)
(* The content types, entries, options, rich-text nodes and numbers the     *)
(* model renders.  An entry is always an object; the values of its fields   *)
(* are well formed, empty, missing, or of the wrong shape for the field.    *)
(* Values stored under a system field uid are strings that occur nowhere    *)
(* else (SysUid, SysLocale, SysTime, SysTag).                               *)
(***************************************************************************)
SysUid == Str("blt0001")
SysLocale == Str("en-us")
SysTime == Str("2024-02-02")
SysTag == Str("internal")

TitledBlock(uid, title, schema) == [Block(uid, "", List(schema)) EXCEPT !.title = title]

\* one choice: the key and the values the entries give it (Undef: left out)
Choice(key, values) == [key |-> key, values |-> values]

\* every object that gives each key one of its values
RECURSIVE Product(_, _)
Product(choices, i) ==
  IF i = 0 THEN {EmptyObj}
  ELSE {IF value = Undef THEN object ELSE With(object, choices[i].key, value) :
          object \in Product(choices, i - 1), value \in choices[i].values}

Post ==
  ContentType(<<Field("title", "text", Mandatory),
                Field("meta_description", "text", Optional),
                Field("views", "number", [display_name |-> "Views"]),
                Field("published", "boolean", Optional),
                Field("uid", "text", Optional),
                Field("summary", "text", Optional)>>)

PostEntries ==
  Product(<<Choice("title", {Str("Hello"), Str("  "), Num(5), Undef}),
            Choice("meta_description", {Str("About"), Undef}),
            Choice("views", {Num(0), Num(1500000), Null}),
            Choice("published", {Bool(FALSE)}),
            Choice("uid", {SysUid}),
            Choice("created_at", {SysTime}),
            Choice("summary", {Str("a|b"), Str(" ")})>>, 7)

SeoPage ==
  ContentType(<<Field("title", "text", Mandatory),
                Field("seo", "group",
                  [display_name |-> "SEO",
                   schema |-> List(<<Field("keyword", "text", Optional),
                                     Field("locale", "text", Optional),
                                     Field("score", "number", Optional),
                                     Field("indexed", "boolean", Optional),
                                     Field("image", "file", Optional)>>)])>>)

Picture == Obj([uid |-> SysUid, url |-> Str("https://cdn/a.png"), content_type |-> Str("image/png")])
Paper == Obj([url |-> Str("https://cdn/a.pdf"), content_type |-> Str("application/pdf"),
              filename |-> Str("a.pdf")])
Odd == Obj([url |-> Str("https://cdn/a.bin"), content_type |-> Num(7)])

SeoValues ==
  Product(<<Choice("keyword", {Str("tla"), Str("")}),
            Choice("locale", {SysLocale}),
            Choice("score", {Num(0), Undef}),
            Choice("indexed", {Bool(FALSE)}),
            Choice("image", {Picture, Paper, Odd, Undef})>>, 5)

SeoPageEntries ==
  Product(<<Choice("title", {Str("Hello")}),
            Choice("seo", SeoValues \cup {Null, Undef, Str("oops")})>>, 2)

StatsPage ==
  ContentType(<<Field("stats", "group",
                  [schema |-> List(<<Field("meta", "group",
                                       [schema |-> List(<<Field("name", "text", Optional),
                                                          Field("created_at", "text", Optional)>>)]),
                                     Field("uid", "text", Optional),
                                     Field("rank", "number", Optional),
                                     Field("body", "json", [allow_json_rte |-> TRUE])>>)]),
                Field("seo", "group",
                  [schema |-> List(<<Field("keyword", "text", Optional),
                                     Field("locale", "text", Optional)>>)])>>)

StatsPageEntries ==
  Product(<<Choice("stats",
              Product(<<Choice("meta", {Obj([name |-> Str("n1"), created_at |-> SysTime]),
                                        EmptyObj, Null, Undef}),
                        Choice("uid", {SysUid}),
                        Choice("rank", {Num(7), Undef}),
                        Choice("body", {Doc})>>, 4) \cup {Null, Undef}),
            Choice("seo", {Obj([keyword |-> Str("tla"), locale |-> SysLocale]), Undef})>>, 2)

TeamsPage ==
  ContentType(<<Field("title", "text", Mandatory),
                Field("teams", "group",
                  [multiple |-> TRUE,
                   schema |-> List(<<Field("name", "text", [display_name |-> "Name"]),
                                     Field("lead", "text", [display_name |-> "a|b"]),
                                     Field("tags", "text", Optional),
                                     Field("_note", "text", Optional),
                                     Field("active", "boolean", Optional)>>)])>>)

Team(name) == Obj([name |-> name, tags |-> SysTag, _note |-> Str("n"), active |-> Bool(FALSE)])

TeamsPageEntries ==
  Product(<<Choice("title", {Str("Hello"), Undef}),
            Choice("teams", {Arr(<<Team(Str("red"))>>), Arr(<<Team(Str("")), Team(Str("a|b"))>>),
                             Arr(<<Null>>), Arr(<< >>), Team(Str("red")), Str("oops"), Num(3),
                             Null, Undef})>>, 2)

SectionsPage ==
  ContentType(<<Field("title", "text", Mandatory),
                Field("sections", "blocks",
                  [blocks |-> List(<<TitledBlock("hero", "Hero",
                                       <<Field("headline", "text", Mandatory),
                                         Field("body", "text", [multiline |-> TRUE]),
                                         Field("uid", "text", Optional),
                                         Field("views", "number", Optional)>>),
                                     TitledBlock("quote", "",
                                       <<Field("quote_text", "text", Optional),
                                         Field("attribution", "text", Optional)>>),
                                     TitledBlock("stamp", "",
                                       <<Field("locale", "text", Mandatory),
                                         Field("note", "text", Optional)>>),
                                     Block("bare", "", Absent)>>)]),
                Field("extras", "blocks", Optional)>>)

BlockItemsShown ==
  {Obj([hero |-> Obj([headline |-> Str("Hi"), body |-> Str("b"), uid |-> SysUid,
                      views |-> Num(0)]),
        _metadata |-> Obj([uid |-> SysUid])]),
   Obj([hero |-> Obj([body |-> Str("b")])]),
   Obj([hero |-> Null]),
   Obj([quote |-> Obj([quote_text |-> Str("q"), attribution |-> Str("me")])]),
   Obj([quote |-> Obj([attribution |-> Str("me")])]),
   Obj([stamp |-> Obj([locale |-> SysLocale, note |-> Str("n")])]),
   Obj([bare |-> Null]),
   Obj([unknown |-> EmptyObj]),
   Obj([_metadata |-> Obj([uid |-> SysUid])]),
   Null}

HiHero == Obj([hero |-> Obj([headline |-> Str("Hi")])])
AQuote == Obj([quote |-> Obj([quote_text |-> Str("q"), attribution |-> Str("me")])])

\* one block item, one followed by a hero, and longer arrays with unknown
\* variants and items without a variant key at the start, between and at the
\* end of the rendered ones
SectionsPageEntries ==
  Product(<<Choice("title", {Str("Hello")}),
            Choice("sections",
              {Arr(<<item>>) : item \in BlockItemsShown}
              \cup {Arr(<<item, HiHero>>) : item \in BlockItemsShown}
              \cup {Arr(<<HiHero, Obj([unknown |-> EmptyObj])>>),
                    Arr(<<AQuote, HiHero, HiHero, Obj([unknown |-> EmptyObj]),
                          Obj([_metadata |-> Obj([uid |-> SysUid])])>>),
                    Arr(<<Obj([unknown |-> EmptyObj]), AQuote, Obj([unknown |-> EmptyObj]),
                          HiHero>>)}
              \cup {Arr(<< >>), Str("oops"), Obj([hero |-> EmptyObj]), Null, Undef}),
            Choice("extras", {Arr(<<Obj([hero |-> EmptyObj])>>), Undef})>>, 3)

RichPage ==
  ContentType(<<Field("title", "text", Mandatory),
                Field("body", "json", [allow_json_rte |-> TRUE]),
                Field("data", "json", Optional),
                Field("topics", "taxonomy", Optional),
                Field("keywords", "text", [multiple |-> TRUE]),
                Field("cover", "file", Optional),
                Field("cta", "link", Optional),
                Field("author", "reference", Optional),
                Field("when", "isodate", Optional),
                Field("flags", "boolean", [multiple |-> TRUE])>>)

Para(text) == Obj([type |-> Str("p"), children |-> Arr(<<Obj([text |-> Str(text)])>>)])
TableCell(text) == Obj([type |-> Str("td"), children |-> Arr(<<Obj([text |-> Str(text)])>>)])

\* rich-text trees of at most three levels
FlatRteNodes ==
  {Doc, Null, Str("oops"),
   Obj([type |-> Str("doc"), children |-> Arr(<<Null, Para("x")>>)]),
   Obj([type |-> Str("doc"), children |-> Str("oops")]),
   Obj([type |-> Str("table"), children |-> Arr(<<Null>>)]),
   Obj([type |-> Str("a"), attrs |-> Obj([href |-> Str("https://x")]),
        children |-> Arr(<<Obj([text |-> Str("x")])>>)]),
   Obj([type |-> Str("img"), attrs |-> Obj([src |-> Str("https://cdn/a.png")])]),
   Obj([type |-> Str("code_block"), attrs |-> Obj([language |-> Str("ts")]),
        children |-> Arr(<<Obj([text |-> Str("x")])>>)]),
   Obj([type |-> Str("widget"), children |-> Arr(<<Obj([text |-> Str("")]),
                                                    Obj([type |-> Str("hr")])>>)])}

\* deeper ones: a heading, a list and a quotation in a document, and a table
NestedRteNodes ==
  {Obj([type |-> Str("doc"),
        children |-> Arr(<<Obj([type |-> Str("h2"),
                                children |-> Arr(<<Obj([text |-> Str("T"), bold |-> Bool(TRUE),
                                                        code |-> Bool(TRUE)])>>)]),
                           Obj([type |-> Str("ul"),
                                children |-> Arr(<<Obj([type |-> Str("li"),
                                                        children |-> Arr(<<Para("x")>>)]),
                                                   Obj([type |-> Str("li"),
                                                        children |-> Arr(<<Para("y")>>)])>>)]),
                           Obj([type |-> Str("blockquote"),
                                children |-> Arr(<<Para("x"), Para("y")>>)])>>)]),
   Obj([type |-> Str("table"),
        children |-> Arr(<<Obj([type |-> Str("tr"),
                                children |-> Arr(<<TableCell("a|b"), TableCell("x")>>)]),
                           Obj([type |-> Str("tr"),
                                children |-> Arr(<<TableCell("1"), TableCell("2")>>)])>>)])}

\* text leaves with inline marks, set and unset, on empty and non-empty text
TextLeaves ==
  {Obj([text |-> Str("x"), bold |-> Bool(TRUE)]),
   Obj([text |-> Str(""), bold |-> Bool(TRUE)]),
   Obj([text |-> Str("")]),
   Obj([text |-> Str("x"), subscript |-> Bool(TRUE), bold |-> Bool(TRUE)]),
   Obj([text |-> Str("x"), italic |-> Bool(FALSE), code |-> Bool(TRUE)]),
   Obj([text |-> Str(""), underline |-> Bool(TRUE), strikethrough |-> Bool(TRUE)]),
   Obj([text |-> Str("x"), bold |-> Bool(TRUE), italic |-> Bool(TRUE),
        underline |-> Bool(TRUE), strikethrough |-> Bool(TRUE), code |-> Bool(TRUE),
        superscript |-> Bool(TRUE), subscript |-> Bool(TRUE)])}

TableRowNode(type, cells) == Obj([type |-> Str(type), children |-> Arr(cells)])

\* tables: one row, rows of different lengths around a child that is no row,
\* a cell of two paragraphs, a cell that holds a pipe, a row without cells,
\* rows wrapped in a body node, no children at all, and rows whose cells or
\* children are malformed
TableNodes ==
  {Obj([type |-> Str("table"), children |-> Arr(<<TableRowNode("row", <<TableCell("x")>>)>>)]),
   Obj([type |-> Str("table"),
        children |-> Arr(<<TableRowNode("tr", <<TableCell("h1"), TableCell("h2"),
                                                 TableCell("h3")>>),
                           Obj([type |-> Str("caption"), children |-> Arr(<<Para("c")>>)]),
                           TableRowNode("tr", <<Obj([type |-> Str("td"),
                                                     children |-> Arr(<<Para("x"), Para("y")>>)]),
                                                TableCell("|")>>)>>)]),
   Obj([type |-> Str("table"),
        children |-> Arr(<<TableRowNode("tr", << >>), TableRowNode("tr", <<TableCell("x")>>)>>)]),
   Obj([type |-> Str("table"),
        children |-> Arr(<<Obj([type |-> Str("tbody"),
                                children |-> Arr(<<TableRowNode("tr", <<TableCell("x")>>)>>)])>>)]),
   Obj([type |-> Str("table")]),
   Obj([type |-> Str("table"),
        children |-> Arr(<<TableRowNode("tr", <<Null, TableCell("x")>>)>>)]),
   Obj([type |-> Str("table"),
        children |-> Arr(<<Obj([type |-> Str("tr"), children |-> Str("oops")])>>)]),
   Obj([type |-> Str("table"),
        children |-> Arr(<<TableRowNode("tr", <<TableCell("x")>>), Null>>)])}

\* the nodes jsonRteToMarkdown is called with
RteNodes == FlatRteNodes \cup NestedRteNodes \cup TextLeaves \cup TableNodes

RichPageEntries ==
  Product(<<Choice("title", {Str("Hello")}),
            Choice("body", {node \in FlatRteNodes : node.t = "object"})>>, 2)
  \cup Product(<<Choice("data", {Obj([a |-> Arr(<<Num(1), EmptyObj>>)]), Str("x")}),
                 Choice("keywords", {Arr(<<Str("a"), Str("b")>>), Arr(<< >>)}),
                 Choice("when", {Str("2024-06-15"), Str("soon")}),
                 Choice("flags", {Arr(<<Bool(TRUE), Bool(FALSE)>>), Undef})>>, 4)
  \cup Product(<<Choice("topics", {Arr(<<Term>>), Arr(<<Null>>), Str("news"), Term}),
                 Choice("cover", {Picture, Paper})>>, 2)
  \cup Product(<<Choice("cta", {Obj([title |-> Str("Go"), href |-> Str("https://x")]),
                                Obj([title |-> Str("Go")]), Str("oops")}),
                 Choice("author", {Obj([uid |-> Str("u1")]),
                                   Obj([uid |-> Str("u1"), title |-> Str("Ann")])})>>, 2)

RenderCases ==
  {[contentType |-> Post, entry |-> e] : e \in PostEntries}
  \cup {[contentType |-> SeoPage, entry |-> e] : e \in SeoPageEntries}
  \cup {[contentType |-> StatsPage, entry |-> e] : e \in StatsPageEntries}
  \cup {[contentType |-> TeamsPage, entry |-> e] : e \in TeamsPageEntries}
  \cup {[contentType |-> SectionsPage, entry |-> e] : e \in SectionsPageEntries}
  \cup {[contentType |-> RichPage, entry |-> e] : e \in RichPageEntries}

\* the options argument: left out, or some of the options, with values or
\* present and undefined
NoOptions == [name \in {} |-> TRUE]
RenderOptions ==
  {NoOptions,
   [skipEmpty |-> FALSE],
   [includeSystemFields |-> TRUE],
   [headingLevel |-> 6],
   [headingLevel |-> 3, useTables |-> FALSE],
   [formatNumber |-> "String", formatDate |-> "String"],
   [titleField |-> "summary", descriptionField |-> "title"],
   [undefined |-> {"skipEmpty"}],
   [undefined |-> {"formatNumber", "formatDate"}],
   [undefined |-> {"titleField"}]}

\* the numbers formatNumberWithCommas is given
Numbers ==
  {0, 7, 999, 1000, 15921, 999999, 1000000, 1040000, 1250000, 1500000, 1960000, 40000000,
   999940000, 999960000, 1000000000, 1960000000, 2000000000}

(***************************************************************************)
(* The state machine: a caller holds a content type and an entry and calls  *)
(* the entry points in any order; each call leaves its result.              *)
(***************************************************************************)
VARIABLES
  contentType,  \* the content type the caller passes
  entry,        \* the entry the caller passes
  origin,       \* "caller": entry is the caller's own; "output": entry is the
                \* success value of validateEntry on the caller's entry
  call,         \* the builder called last and the mode it was given
  validator,    \* what that builder returned
  parsed,       \* validator.safeParse(entry)
  full,         \* validateEntry(contentType, entry)
  draft,        \* validateDraft(contentType, entry)
  missing,      \* extractMissingFields(full.error)
  output        \* the renderer function called last, its arguments and what it
                \* returned

vars ==
  <<contentType, entry, origin, call, validator, parsed, full, draft, missing, output,
    DEFAULT_OPTIONS, SYSTEM_FIELDS>>

\* what the validator calls leave alone
rendererVars == <<output, DEFAULT_OPTIONS, SYSTEM_FIELDS>>

NoOutput == [op |-> "none"]

NoBuilder == [op |-> "none", mode |-> ""]
NoMissing == [called |-> FALSE, paths |-> << >>]

Init ==
  /\ contentType \in ContentTypes
  /\ entry \in (IF NoSchemaList(contentType)
                THEN {EmptyObj, Obj([title |-> Str("a")])}
                ELSE Entries(contentType))
  /\ origin = "caller"
  /\ call = NoBuilder
  /\ validator = NoCall
  /\ parsed = NoCall
  /\ full = NoCall
  /\ draft = NoCall
  /\ missing = NoMissing
  /\ output = NoOutput
  /\ DEFAULT_OPTIONS = DefaultOptions
  /\ SYSTEM_FIELDS = SystemFieldUids

\* contentTypeToZod(contentType, options)
ContentTypeToZod ==
  \E mode \in Modes :
    /\ call' = [op |-> "contentTypeToZod", mode |-> mode]
    /\ validator' = contentTypeToZod(contentType, mode)
    /\ parsed' = NoCall
    /\ UNCHANGED <<contentType, entry, origin, full, draft, missing>>
    /\ UNCHANGED rendererVars

\* contentTypeToDraftZod(contentType, options)
ContentTypeToDraftZod ==
  \E mode \in Modes :
    /\ call' = [op |-> "contentTypeToDraftZod", mode |-> mode]
    /\ validator' = contentTypeToDraftZod(contentType, mode)
    /\ parsed' = NoCall
    /\ UNCHANGED <<contentType, entry, origin, full, draft, missing>>
    /\ UNCHANGED rendererVars

\* schema.safeParse(entry) on the validator a builder returned
SchemaSafeParse ==
  /\ validator.kind = "schema"
  /\ parsed' = Result(SafeParse(validator.schema, entry))
  /\ UNCHANGED <<contentType, entry, origin, call, validator, full, draft, missing>>
  /\ UNCHANGED rendererVars

\* validateEntry(contentType, entry)
ValidateEntry ==
  /\ full' = validateEntry(contentType, entry)
  /\ UNCHANGED <<contentType, entry, origin, call, validator, parsed, draft, missing>>
  /\ UNCHANGED rendererVars

\* validateDraft(contentType, entry)
ValidateDraft ==
  /\ draft' = validateDraft(contentType, entry)
  /\ UNCHANGED <<contentType, entry, origin, call, validator, parsed, full, missing>>
  /\ UNCHANGED rendererVars

\* extractMissingFields(result.error) on the failure validateEntry returned
ExtractMissingFields ==
  /\ full.kind = "failure"
  /\ missing' = [called |-> TRUE, paths |-> extractMissingFields(full.issues)]
  /\ UNCHANGED <<contentType, entry, origin, call, validator, parsed, full, draft>>
  /\ UNCHANGED rendererVars

\* the caller validates the success value of validateEntry in its turn
Revalidate ==
  /\ origin = "caller"
  /\ full.kind = "success"
  /\ entry' = full.data
  /\ origin' = "output"
  /\ call' = NoBuilder
  /\ validator' = NoCall
  /\ parsed' = NoCall
  /\ full' = NoCall
  /\ draft' = NoCall
  /\ missing' = NoMissing
  /\ UNCHANGED contentType
  /\ UNCHANGED rendererVars

\* entryToMarkdown(entry, contentType, options)
EntryToMarkdown ==
  \E options \in RenderOptions :
    /\ output' = [op |-> "entryToMarkdown", options |-> options,
                  text |-> entryToMarkdown(entry, contentType, options)]
    /\ DEFAULT_OPTIONS' = DefaultsAfter(DEFAULT_OPTIONS, options)
    /\ UNCHANGED <<contentType, entry, origin, call, validator, parsed, full, draft, missing,
                   SYSTEM_FIELDS>>

\* what jsonRteToMarkdown returns for each of the nodes, computed once: the
\* function reads neither the options nor the module's state
RteResults == {[node |-> node, text |-> jsonRteToMarkdown(node)] : node \in RteNodes}

\* jsonRteToMarkdown(node)
JsonRteToMarkdown ==
  \E result \in RteResults :
    /\ output' = [op |-> "jsonRteToMarkdown", node |-> result.node, text |-> result.text]
    /\ UNCHANGED <<contentType, entry, origin, call, validator, parsed, full, draft, missing,
                   DEFAULT_OPTIONS, SYSTEM_FIELDS>>

\* formatNumberWithCommas(num)
FormatNumberWithCommas ==
  \E n \in Numbers :
    /\ output' = [op |-> "formatNumberWithCommas", num |-> n,
                  text |-> Tok(formatNumberWithCommas(Num(n)))]
    /\ UNCHANGED <<contentType, entry, origin, call, validator, parsed, full, draft, missing,
                   DEFAULT_OPTIONS, SYSTEM_FIELDS>>

Next ==
  \/ ContentTypeToZod
  \/ ContentTypeToDraftZod
  \/ SchemaSafeParse
  \/ ValidateEntry
  \/ ValidateDraft
  \/ ExtractMissingFields
  \/ Revalidate

Spec == Init /\ [][Next]_vars

\* a caller that renders: it holds a content type and an entry of the
\* renderer's catalog and calls the renderer and the validator in any order
RenderInit ==
  /\ \E case \in RenderCases : contentType = case.contentType /\ entry = case.entry
  /\ origin = "caller"
  /\ call = NoBuilder
  /\ validator = NoCall
  /\ parsed = NoCall
  /\ full = NoCall
  /\ draft = NoCall
  /\ missing = NoMissing
  /\ output = NoOutput
  /\ DEFAULT_OPTIONS = DefaultOptions
  /\ SYSTEM_FIELDS = SystemFieldUids

RenderNext ==
  \/ EntryToMarkdown
  \/ JsonRteToMarkdown
  \/ FormatNumberWithCommas
  \/ ValidateEntry
  \/ ValidateDraft

RenderSpec == RenderInit /\ [][RenderNext]_vars

TypeOK ==
  /\ origin \in {"caller", "output"}
  /\ validator.kind \in {"none", "throw", "schema"}
  /\ parsed.kind \in {"none", "success", "failure"}
  /\ full.kind \in {"none", "throw", "success", "failure"}
  /\ draft.kind \in {"none", "throw", "success", "failure"}
  /\ output.op \in {"none", "entryToMarkdown", "jsonRteToMarkdown", "formatNumberWithCommas"}

(***************************************************************************)
(* Claims.                                                                  *)
(***************************************************************************)
\* the uids of the mandatory fields of a field list
MandatoryUids(fields) == {fields[i].uid : i \in {j \in 1..Len(fields) : fields[j].mandatory}}

\* C1: monotonic relaxation.  Whenever validateEntry accepted the entry,
\* validateDraft accepts it too, and validateDraft accepts it with any subset
\* of its mandatory top-level fields removed.
C1_MonotonicRelaxation ==
  full.kind = "success" =>
    /\ draft.kind # "none" => draft.kind = "success"
    /\ \A removed \in SUBSET MandatoryUids(contentType.schema) :
         validateDraft(contentType, Without(entry, removed)).kind = "success"

\* an accepted entry with two mandatory top-level fields, validated as a draft too
C1_Witness ==
  /\ full.kind = "success"
  /\ draft.kind = "success"
  /\ contentType = BlogPost
  /\ MandatoryUids(contentType.schema) = {"title", "views"}
  /\ Get(entry, "title").t = "string"
  /\ Get(entry, "views").t = "number"

\* the field of a list with the uid
FieldOf(fields, uid) == fields[CHOOSE i \in 1..Len(fields) : fields[i].uid = uid]
Declares(fields, uid) == \E i \in 1..Len(fields) : fields[i].uid = uid

RECURSIVE FillObject(_, _)
RECURSIVE FillValue(_, _)

\* a value of the field's type, to put back where a mandatory field was left
\* out; Undef where the model has none to offer
DefaultValue(field) ==
  CASE field.multiple -> Undef
    [] field.data_type = "text" ->
         IF Len(OrEmpty(field.choices)) > 0 THEN Str(field.choices.items[1]) ELSE Str("a")
    [] field.data_type = "number" -> Num(7)
    [] field.data_type = "boolean" -> Bool(TRUE)
    [] field.data_type = "group" -> FillObject(OrEmpty(field.schema), EmptyObj)
    [] OTHER -> Undef

\* the object with every mandatory field it leaves out put back, at every depth
FillObject(fields, object) ==
  LET absent == {uid \in MandatoryUids(fields) \ DOMAIN object.v :
                   DefaultValue(FieldOf(fields, uid)) # Undef}
  IN Obj([key \in (DOMAIN object.v) \cup absent |->
            IF key \in absent THEN DefaultValue(FieldOf(fields, key))
            ELSE IF Declares(fields, key) THEN FillValue(FieldOf(fields, key), object.v[key])
            ELSE object.v[key]])

\* the same inside the value of one field
FillValue(field, value) ==
  CASE field.data_type = "group" /\ ~field.multiple /\ value.t = "object" ->
         FillObject(OrEmpty(field.schema), value)
    [] field.data_type = "group" /\ field.multiple /\ value.t = "array" ->
         Arr([i \in 1..Len(value.v) |->
                IF value.v[i].t = "object" THEN FillObject(OrEmpty(field.schema), value.v[i])
                ELSE value.v[i]])
    [] field.data_type = "blocks" /\ value.t = "array" ->
         Arr([i \in 1..Len(value.v) |->
                LET item == value.v[i]
                    blocks == OrEmpty(field.blocks)
                    own == {j \in 1..Len(blocks) :
                              /\ item.t = "object"
                              /\ blocks[j].uid \in DOMAIN item.v
                              /\ blocks[j].reference_to = ""
                              /\ item.v[blocks[j].uid].t = "object"}
                IN IF own = {} THEN item
                   ELSE LET block == blocks[CHOOSE j \in own : TRUE]
                        IN With(item, block.uid,
                                FillObject(OrEmpty(block.schema), item.v[block.uid]))])
    [] OTHER -> value

\* the entry with the mandatory fields it leaves out inside the groups and
\* block items it supplies put back; its top level is left as it is
FillNested(fields, object) ==
  Obj([key \in DOMAIN object.v |->
         IF Declares(fields, key) THEN FillValue(FieldOf(fields, key), object.v[key])
         ELSE object.v[key]])

\* the entry supplies a group or a block item without a mandatory field of
\* it, and is accepted as a draft once those fields are put back
OmitsOnlyNestedFields ==
  /\ ~NoSchemaList(contentType)
  /\ entry.t = "object"
  /\ FillNested(contentType.schema, entry) # entry
  /\ validateDraft(contentType, FillNested(contentType.schema, entry)).kind = "success"

\* C2 as stated: in draft mode every field is optional recursively, so an
\* entry that omits only mandatory fields nested inside groups and block
\* items it supplies is accepted by validateDraft.
C2_DraftOptionalAtEveryDepth ==
  (draft.kind \in {"success", "failure"} /\ OmitsOnlyNestedFields) => draft.kind = "success"

\* every occurrence of a declared field in an object: its joined path, its
\* definition and the value the object holds for it (Undef: left out)
RECURSIVE Occurrences(_, _, _)
RECURSIVE Inside(_, _, _)
Occurrences(fields, object, path) ==
  UNION {{[path |-> Join(Append(path, fields[i].uid)), field |-> fields[i],
           value |-> Get(object, fields[i].uid)]}
         \cup Inside(fields[i], Get(object, fields[i].uid), Append(path, fields[i].uid)) :
           i \in 1..Len(fields)}

Inside(field, value, path) ==
  CASE field.data_type = "group" /\ ~field.multiple /\ value.t = "object" ->
         Occurrences(OrEmpty(field.schema), value, path)
    [] field.data_type = "group" /\ field.multiple /\ value.t = "array" ->
         UNION {Occurrences(OrEmpty(field.schema), value.v[i], Append(path, ToString(i - 1))) :
                  i \in {j \in 1..Len(value.v) : value.v[j].t = "object"}}
    [] field.data_type = "blocks" /\ value.t = "array" ->
         UNION {LET block == OrEmpty(field.blocks)[pair[2]]
                IN Occurrences(OrEmpty(block.schema), value.v[pair[1]].v[block.uid],
                               path \o <<ToString(pair[1] - 1), block.uid>>) :
                  pair \in {q \in (1..Len(value.v)) \X (1..Len(OrEmpty(field.blocks))) :
                              /\ value.v[q[1]].t = "object"
                              /\ OrEmpty(field.blocks)[q[2]].reference_to = ""
                              /\ OrEmpty(field.blocks)[q[2]].uid \in DOMAIN value.v[q[1]].v
                              /\ value.v[q[1]].v[OrEmpty(field.blocks)[q[2]].uid].t = "object"}}
    [] OTHER -> {}

\* the JavaScript type a value of the field has; "any" where every value fits
ExpectedType(field) ==
  CASE field.data_type \in {"group", "blocks"} ->
         IF field.multiple \/ field.data_type = "blocks" THEN "array" ELSE "object"
    [] field.multiple -> "array"
    [] field.data_type \in {"text", "isodate"} -> "string"
    [] field.data_type \in {"number", "boolean"} -> field.data_type
    [] field.data_type \in {"file", "link", "reference", "global_field"} -> "object"
    [] field.data_type = "taxonomy" -> "array"
    [] field.data_type = "json" /\ field.allow_json_rte -> "object"
    [] OTHER -> "any"

\* a supplied value of the wrong type: null for a mandatory field, or a
\* value of another type than the field's
WrongType(field, value) ==
  /\ value # Undef
  /\ IF value = Null THEN field.mandatory
     ELSE ExpectedType(field) \notin {"any", value.t}

IssuePaths(issues) == {Join(issues[i].path) : i \in 1..Len(issues)}
Range(seq) == {seq[i] : i \in 1..Len(seq)}

\* C3 as stated: draft mode never hides a type mismatch.  For every field the
\* entry supplies with a value of the wrong type (null for a mandatory field
\* included), validateDraft fails and its issues include the field's path.
C3_DraftReportsEveryMismatch ==
  (draft.kind \in {"success", "failure"} /\ entry.t = "object") =>
    \A o \in Occurrences(contentType.schema, entry, << >>) :
      WrongType(o.field, o.value) =>
        draft.kind = "failure" /\ o.path \in IssuePaths(draft.issues)

\* C4: a content type that is null, undefined or without a schema list makes
\* every entry point raise: no validator and no validation result comes back.
C4_NoSchemaListRaises ==
  (contentType.t \in {"null", "undefined"} \/ contentType.schema_t \in {"null", "undefined"}) =>
    /\ validator.kind \in {"none", "throw"}
    /\ parsed.kind = "none"
    /\ full.kind \in {"none", "throw"}
    /\ draft.kind \in {"none", "throw"}
    /\ ~missing.called

\* all the entry points were called on an object that has no schema list
C4_Witness ==
  /\ contentType = ContentTypeNoSchema
  /\ call.op = "contentTypeToDraftZod"
  /\ validator.kind = "throw"
  /\ full.kind = "throw"
  /\ draft.kind = "throw"

\* C5: with a schema list, whatever the field definitions and whatever the
\* entry, validateEntry and validateDraft return a success or a failure and
\* never raise.
C5_ValidationNeverRaises ==
  (contentType.t = "object" /\ contentType.schema_t = "array") =>
    /\ full.kind \in {"none", "success", "failure"}
    /\ draft.kind \in {"none", "success", "failure"}
    /\ validator.kind \in {"none", "schema"}

\* a malformed format pattern, and an entry that is no object at all
C5_Witness ==
  /\ contentType = BrokenText
  /\ entry = Null
  /\ full.kind = "failure"
  /\ draft.kind = "failure"
  /\ validator.kind = "schema"

RECURSIVE ExpectObject(_, _, _, _)
RECURSIVE ExpectValue(_, _, _)

\* taxonomy terms keep taxonomy_uid and term_uid alone
TermsOnly(value) ==
  IF value.t # "array" THEN value
  ELSE Arr([i \in 1..Len(value.v) |->
              IF value.v[i].t # "object" THEN value.v[i]
              ELSE Obj([key \in (DOMAIN value.v[i].v) \cap {"taxonomy_uid", "term_uid"} |->
                          value.v[i].v[key]])])

\* the object as a success value is expected to hold it.  strip: the
\* undeclared keys of this object go (those in kept stay).  reading is
\* "claimed": undeclared keys go inside groups and block items alike and
\* nothing else changes; "amended": groups and block items keep their
\* undeclared keys, and taxonomy terms are cut down to their two keys.
ExpectObject(fields, object, kept, reading) ==
  LET keys == IF reading[1]
              THEN {key \in DOMAIN object.v : Declares(fields, key) \/ key \in kept}
              ELSE DOMAIN object.v
  IN Obj([key \in keys |->
            IF Declares(fields, key)
            THEN ExpectValue(FieldOf(fields, key), object.v[key], reading[2])
            ELSE object.v[key]])

ExpectValue(field, value, reading) ==
  LET strip == reading = "claimed"
  IN CASE field.data_type = "taxonomy" /\ reading = "amended" ->
            IF ~field.multiple THEN TermsOnly(value)
            ELSE IF value.t # "array" THEN value
            ELSE Arr([i \in 1..Len(value.v) |-> TermsOnly(value.v[i])])
       [] field.data_type = "group" /\ ~field.multiple /\ value.t = "object" ->
            ExpectObject(OrEmpty(field.schema), value, {}, <<strip, reading>>)
       [] field.data_type = "group" /\ field.multiple /\ value.t = "array" ->
            Arr([i \in 1..Len(value.v) |->
                   ExpectObject(OrEmpty(field.schema), value.v[i], {"_metadata"},
                                <<strip, reading>>)])
       [] field.data_type = "blocks" /\ value.t = "array" ->
            Arr([i \in 1..Len(value.v) |->
                   LET item == value.v[i]
                       blocks == OrEmpty(field.blocks)
                       own == {j \in 1..Len(blocks) :
                                 /\ blocks[j].uid \in DOMAIN item.v
                                 /\ blocks[j].reference_to = ""}
                   IN IF own = {} THEN item
                      ELSE LET block == blocks[CHOOSE j \in own : \A l \in own : j <= l]
                           IN With(item, block.uid,
                                   ExpectObject(OrEmpty(block.schema), item.v[block.uid],
                                                {"_metadata"}, <<strip, reading>>))])
       [] OTHER -> value

\* C6 as stated: the success value of validateEntry is the entry restricted
\* to the declared fields, at the top level and inside groups and block items
\* alike, declared keys keeping their values.
C6_ValueRestrictedAtEveryDepth ==
  full.kind = "success" =>
    full.data = ExpectObject(contentType.schema, entry, {}, <<TRUE, "claimed">>)

\* C6 amended: the success value is the entry without its undeclared
\* top-level keys and with each taxonomy term cut down to taxonomy_uid and
\* term_uid; everything else, the undeclared keys inside groups, block
\* items, assets, links and references included, is returned unchanged.
C6_ValueRestrictedAtTopLevel ==
  full.kind = "success" =>
    full.data = ExpectObject(contentType.schema, entry, {}, <<TRUE, "amended">>)

\* an accepted entry with an undeclared key at the top level (dropped) and
\* one inside a group (kept)
C6_Witness ==
  /\ full.kind = "success"
  /\ contentType = Profile
  /\ "extra" \in DOMAIN entry.v
  /\ "extra" \in DOMAIN entry.v["author"].v
  /\ "extra" \notin DOMAIN full.data.v
  /\ "extra" \in DOMAIN full.data.v["author"].v

\* C7: validation is idempotent on its output.  When the entry is the
\* success value of validateEntry, validateEntry accepts it and returns it
\* unchanged.
C7_Idempotent ==
  (origin = "output" /\ full.kind # "none") => full.kind = "success" /\ full.data = entry

\* the success value of an entry that lost a key, validated again
C7_Witness ==
  /\ origin = "output"
  /\ full.kind = "success"
  /\ contentType = Profile
  /\ "extra" \in DOMAIN entry.v["author"].v

\* C8 as stated: extractMissingFields returns the path of every mandatory
\* field the entry leaves out, at every depth (groups, repeated groups, block
\* items), and the path of no field the entry supplies.
C8_EveryAbsentMandatoryFieldListed ==
  (missing.called /\ entry.t = "object") =>
    \A o \in Occurrences(contentType.schema, entry, << >>) :
      /\ (o.field.mandatory /\ o.value = Undef) => o.path \in Range(missing.paths)
      /\ o.value # Undef => o.path \notin Range(missing.paths)

\* the validator of one field on one value
Accepts(field, value) == SafeParse(fieldToZod(field, ""), value).kind = "success"

\* C9 as stated: for every field that is neither a group nor blocks,
\* multiple accepts exactly the arrays whose elements all fit the base shape,
\* a field that is not mandatory accepts absence and null, and a mandatory
\* field rejects both.
C9_MultipleAndMandatory ==
  (full.kind \in {"success", "failure"} /\ entry.t = "object") =>
    \A i \in 1..Len(contentType.schema) :
      LET field == contentType.schema[i]
          value == Get(entry, field.uid)
          base == [field EXCEPT !.multiple = FALSE, !.mandatory = TRUE]
      IN field.data_type \notin {"group", "blocks"} =>
           /\ value.t \in {"undefined", "null"} => (Accepts(field, value) <=> ~field.mandatory)
           /\ (field.multiple /\ value.t \notin {"undefined", "null"}) =>
                (Accepts(field, value) <=>
                   /\ value.t = "array"
                   /\ \A j \in 1..Len(value.v) : Accepts(base, value.v[j]))

\* C10 as stated: a mandatory single file field accepts, in upsert mode,
\* exactly the non-empty strings, and in read mode exactly the objects with a
\* non-empty string uid (url, when given, a string), extra attributes kept.
C10_FileByMode ==
  (contentType = Media /\ call.op = "contentTypeToZod" /\ parsed.kind # "none"
     /\ entry.t = "object") =>
    LET image == Get(entry, "image")
    IN IF call.mode = "upsert"
       THEN parsed.kind = "success" <=> (image.t = "string" /\ image.v # "")
       ELSE /\ parsed.kind = "success" <=>
                 /\ image.t = "object"
                 /\ Get(image, "uid").t = "string"
                 /\ Get(image, "uid").v # ""
                 /\ Get(image, "url").t \in {"undefined", "string"}
            /\ parsed.kind = "success" => Get(parsed.data, "image") = image


\* the keys of a blocks item that do not start with an underscore
VariantKeys(item) == {key \in DOMAIN item.v : ~StartsWithUnderscore(key)}

BlockUids(field) == {OrEmpty(field.blocks)[i].uid : i \in 1..Len(OrEmpty(field.blocks))}

\* the top-level fields of the content type that have the data type
FieldsOfType(data_type) ==
  {contentType.schema[i] : i \in {j \in 1..Len(contentType.schema) :
                                    contentType.schema[j].data_type = data_type}}

\* the object items of the array the entry holds for the field
ItemsOf(field) ==
  LET value == Get(entry, field.uid)
  IN IF value.t # "array" THEN {}
     ELSE {value.v[i] : i \in {j \in 1..Len(value.v) : value.v[j].t = "object"}}

\* C12 as stated: a blocks item matches exactly one declared variant through
\* its single key: an item that carries the keys of two declared variants, or
\* a declared variant key and another key without underscore, is rejected.
C12_ExactlyOneVariant ==
  (full.kind \in {"success", "failure"} /\ entry.t = "object") =>
    \A field \in FieldsOfType("blocks") :
      \A item \in ItemsOf(field) :
        (Cardinality(VariantKeys(item)) >= 2 /\ VariantKeys(item) \cap BlockUids(field) # {})
          => full.kind = "failure"

\* C19 as stated: a text field that is not rich text rejects every string
\* that does not match its well-formed format, with or without enum.choices;
\* with choices the value is one of them; a malformed format is ignored; a
\* rich-text field accepts any string.
C19_TextFormatAndChoices ==
  (full.kind \in {"success", "failure"} /\ entry.t = "object") =>
    \A field \in FieldsOfType("text") :
      LET value == Get(entry, field.uid)
          choices == OrEmpty(field.choices)
      IN (value.t = "string" /\ ~field.multiple) =>
           IF field.allow_rich_text THEN Accepts(field, value)
           ELSE /\ (field.format \in WellFormedPatterns /\ ~RegExpTest(field.format, value.v))
                     => ~Accepts(field, value)
                /\ Len(choices) > 0 =>
                     (Accepts(field, value) => \E i \in 1..Len(choices) : choices[i] = value.v)
                /\ (field.format # "" /\ field.format \notin WellFormedPatterns
                      /\ Len(choices) = 0) => Accepts(field, value)

\* the instant lies within the bounds the field gives, both ends included
InRange(field, s) ==
  /\ field.startDate # "" => DateParse(field.startDate)[1] <= DateParse(s)[1]
  /\ field.endDate # "" => DateParse(s)[1] <= DateParse(field.endDate)[1]

\* the field gives a bound, and every bound it gives parses as a date
Bounded(field) ==
  /\ field.startDate # "" \/ field.endDate # ""
  /\ field.startDate # "" => DateParse(field.startDate) # << >>
  /\ field.endDate # "" => DateParse(field.endDate) # << >>

\* C20 as stated: with startDate and/or endDate a well-formed full-timestamp
\* value is accepted exactly when its instant lies within the inclusive
\* range; without bounds the date-only and the full-timestamp form are both
\* accepted.
C20_RangeOnFullTimestamps ==
  (full.kind \in {"success", "failure"} /\ entry.t = "object") =>
    \A field \in FieldsOfType("isodate") :
      LET value == Get(entry, field.uid)
      IN (value.t = "string" /\ ~field.multiple) =>
           /\ (Bounded(field) /\ value.v \in FullTimestampForm) =>
                (Accepts(field, value) <=> InRange(field, value.v))
           /\ (field.startDate = "" /\ field.endDate = ""
                 /\ value.v \in FullTimestampForm \cup DateOnlyForm) => Accepts(field, value)

\* C20 amended: with bounds a value is accepted exactly when it is a UTC
\* timestamp with the Z suffix (z.string().datetime()) whose instant lies
\* within the inclusive range; a timestamp without Z and a date-only value
\* are rejected.  Without bounds both forms are accepted.
C20_RangeOnZuluTimestamps ==
  (full.kind \in {"success", "failure"} /\ entry.t = "object") =>
    \A field \in FieldsOfType("isodate") :
      LET value == Get(entry, field.uid)
      IN (value.t = "string" /\ ~field.multiple) =>
           /\ Bounded(field) =>
                (Accepts(field, value) <=>
                   value.v \in ZodDatetimeForm /\ InRange(field, value.v))
           /\ (field.startDate = "" /\ field.endDate = ""
                 /\ value.v \in FullTimestampForm \cup DateOnlyForm) => Accepts(field, value)

\* an accepted entry whose bounded date sits on the end of its range
C20_Witness ==
  /\ contentType = Event
  /\ full.kind = "success"
  /\ Get(entry, "ends") = Str(Event.schema[2].endDate)
  /\ Get(entry, "starts") = Str("2024-06-15")

\* q tenths written with one decimal, a ".0" left out
OneDecimal(q) ==
  IF q % 10 = 0 THEN ToString(q \div 10)
  ELSE ToString(q \div 10) \o "." \o ToString(q % 10)

\* C16: the default number formatter groups thousands below one million and
\* abbreviates from one million upward: 1000 -> "1,000", 15921 -> "15,921",
\* 1500000 -> "1.5M", 40000000 -> "40M", 1000000000 -> "1B"; for every
\* integer n >= 10^6 the result is n / 10^6 (n / 10^9 from 10^9 upward)
\* rounded to the nearest tenth, a trailing ".0" dropped, followed by M (B).
C16_NumberFormat ==
  output.op = "formatNumberWithCommas" =>
    LET n == output.num
        unit == IF n >= 1000000000 THEN 1000000000 ELSE 1000000
        tenthOfUnit == unit \div 10
        suffix == IF n >= 1000000000 THEN "B" ELSE "M"
        low == n % 1000
    IN /\ n = 1000 => output.text = Tok("1,000")
       /\ n = 15921 => output.text = Tok("15,921")
       /\ n = 1500000 => output.text = Tok("1.5M")
       /\ n = 40000000 => output.text = Tok("40M")
       /\ n = 1000000000 => output.text = Tok("1B")
       /\ n >= 1000000 =>
            \E q \in {n \div tenthOfUnit, n \div tenthOfUnit + 1} :
              /\ 2 * (IF n >= q * tenthOfUnit THEN n - q * tenthOfUnit
                      ELSE q * tenthOfUnit - n) <= tenthOfUnit
              /\ output.text = Tok(OneDecimal(q) \o suffix)
       /\ (0 <= n /\ n < 1000) => output.text = Tok(ToString(n))
       /\ (1000 <= n /\ n < 1000000) =>
            output.text = Tok(ToString(n \div 1000) \o ","
                              \o (IF low < 10 THEN "00" ELSE IF low < 100 THEN "0" ELSE "")
                              \o ToString(low))

\* a number whose quotient rounds up to a whole number of millions
C16_Witness ==
  /\ output.op = "formatNumberWithCommas"
  /\ output.num = 1960000
  /\ output.text = Tok("2M")

\* C17: no call of the validator or of the renderer changes its arguments or
\* the module's state: after any sequence of calls DEFAULT_OPTIONS and
\* SYSTEM_FIELDS are what the module set them to, and every result a call
\* left is the result of that call made alone on the content type, entry,
\* options or rich-text tree as they are now (validateEntry and validateDraft
\* build their validator with contentTypeToZod).
C17_NoMutation ==
  /\ DEFAULT_OPTIONS = DefaultOptions
  /\ SYSTEM_FIELDS = SystemFieldUids
  /\ output.op = "entryToMarkdown" =>
       output.text = RenderEntry(entry, contentType, Spread(DefaultOptions, output.options))
  /\ output.op = "jsonRteToMarkdown" => output.text = jsonRteToMarkdown(output.node)
  /\ full.kind # "none" => full = validateEntry(contentType, entry)
  /\ draft.kind # "none" => draft = validateDraft(contentType, entry)

\* a render whose options changed its result, made among validator calls
C17_Witness ==
  /\ output.op = "entryToMarkdown"
  /\ output.options = [skipEmpty |-> FALSE]
  /\ ~output.text.throw
  /\ output.text # RenderEntry(entry, contentType, DefaultOptions)
  /\ full.kind = "failure"
  /\ draft.kind = "success"
  /\ DEFAULT_OPTIONS.skipEmpty

\* C13: entryToMarkdown and jsonRteToMarkdown never raise, for any content
\* type with a schema list, any options and any entry whose values are
\* missing, null or of the wrong shape for their declared type.
C13_RenderingNeverRaises ==
  (output.op \in {"entryToMarkdown", "jsonRteToMarkdown"}
     /\ contentType.t = "object" /\ contentType.schema_t = "array" /\ entry.t = "object")
    => ~output.text.throw

\* the values the object stores under a system field uid
StoredUnderSystemUid(value) ==
  IF value.t # "object" THEN {}
  ELSE {value.v[key] : key \in DOMAIN value.v \cap SystemFieldUids}

\* the values stored under a system field uid at every level the renderer
\* walks: the object, the values of its groups, the items of its repeatable
\* groups, its block items and their payloads
RECURSIVE SystemValues(_, _)
SystemValues(value, schema) ==
  StoredUnderSystemUid(value)
  \cup UNION {
    LET field == schema[i]
        fieldValue == Prop(value, field.uid)
        items == IF fieldValue.t = "array" THEN fieldValue.v ELSE << >>
    IN CASE field.data_type = "group" /\ ~field.multiple ->
              SystemValues(fieldValue, OrEmpty(field.schema))
         [] field.data_type = "group" /\ field.multiple ->
              UNION {SystemValues(items[j], OrEmpty(field.schema)) : j \in 1..Len(items)}
         [] field.data_type = "blocks" ->
              UNION {StoredUnderSystemUid(items[j])
                     \cup UNION {SystemValues(Prop(items[j], OrEmpty(field.blocks)[b].uid),
                                              OrEmpty(OrEmpty(field.blocks)[b].schema)) :
                                   b \in 1..Len(OrEmpty(field.blocks))} :
                     j \in 1..Len(items)}
         [] OTHER -> {} :
    i \in 1..Len(schema)}

\* C14: with default options no value stored under a system field uid
\* appears in the output of entryToMarkdown, at any level and whether or not
\* the schema declares the field.
C14_NoSystemValueInOutput ==
  (output.op = "entryToMarkdown" /\ output.options = NoOptions /\ ~output.text.throw) =>
    \A value \in SystemValues(entry, contentType.schema) :
      value.t = "string" => value.v \notin Tokens(output.text)

\* empty as the specification defines it: null, undefined, a string of
\* whitespace only, or a sequence without items
EmptyValue(value) ==
  \/ value \in {Null, Undef}
  \/ value \in {Str(""), Str(" "), Str("  ")}
  \/ value = Arr(<< >>)

\* the entry with one of its empty fields taken out: a field of the entry, or
\* a field of one of its non-repeatable groups
WithoutAnEmptyField(data, schema) ==
  {Without(data, {schema[i].uid}) :
     i \in {k \in 1..Len(schema) :
              schema[k].uid \in DOMAIN data.v /\ EmptyValue(data.v[schema[k].uid])}}
  \cup UNION {
    LET group == schema[i]
        value == Prop(data, group.uid)
        fields == OrEmpty(group.schema)
    IN IF group.data_type = "group" /\ ~group.multiple /\ value.t = "object"
       THEN {With(data, group.uid, Without(value, {fields[j].uid})) :
               j \in {k \in 1..Len(fields) :
                        fields[k].uid \in DOMAIN value.v /\ EmptyValue(value.v[fields[k].uid])}}
       ELSE {} :
    i \in 1..Len(schema)}

\* the line `**label:** shown` is a line of the text
HasLine(text, field, shown) ==
  \E i \in 1..Len(text.lines) :
    text.lines[i] = <<"**", IF field.display_name # "" THEN field.display_name ELSE field.uid,
                      ":**", " ", shown>>

\* C15: a field is empty exactly when its value is null, undefined, a blank
\* string or an empty sequence; with skipEmpty at its default an empty field
\* contributes nothing to the output of entryToMarkdown (the output is that
\* of the entry without the field), while false and 0 are not empty and are
\* rendered as "**No**" and "0".
C15_EmptyFieldsContributeNothing ==
  (output.op = "entryToMarkdown" /\ "skipEmpty" \notin DOMAIN output.options
     /\ ~output.text.throw) =>
    LET opts == Spread(DefaultOptions, output.options)
        schema == contentType.schema
    IN /\ \A i \in 1..Len(schema) :
            isEmpty(Prop(entry, schema[i].uid)) <=> EmptyValue(Prop(entry, schema[i].uid))
       /\ \A without \in WithoutAnEmptyField(entry, schema) :
            output.text = RenderEntry(without, contentType, opts)
       /\ \A i \in 1..Len(schema) :
            /\ (schema[i].data_type = "boolean" /\ Prop(entry, schema[i].uid) = Bool(FALSE)) =>
                 HasLine(output.text, schema[i], "**No**")
            /\ (schema[i].data_type = "number" /\ Prop(entry, schema[i].uid) = Num(0)) =>
                 HasLine(output.text, schema[i], "0")

\* C11 as stated: for every blocks field, one without block definitions
\* included, the validator rejects every item of the array whose key without
\* underscore is not the uid of a declared block definition.
C11_UndeclaredVariantRejected ==
  (full.kind \in {"success", "failure"} /\ entry.t = "object") =>
    \A field \in FieldsOfType("blocks") :
      \A item \in ItemsOf(field) :
        (VariantKeys(item) # {} /\ VariantKeys(item) \cap BlockUids(field) = {})
          => full.kind = "failure"

Min(a, b) == IF a < b THEN a ELSE b

StartsWith(line, prefix) ==
  Len(line) >= Len(prefix) /\ SubSeq(line, 1, Len(prefix)) = prefix

\* the positions of the lines `#...# label` with level hashes
HeadingsOf(text, label, level) ==
  {p \in 1..Len(text.lines) : text.lines[p] = Hashes(level) \o <<" ", label>>}

\* the positions of the lines that put the label before a value or a section:
\* a heading of the label at any level, or a line `**label:** ...`
MarkersOf(text, label) ==
  UNION {HeadingsOf(text, label, level) : level \in 1..8}
  \cup {p \in 1..Len(text.lines) : StartsWith(text.lines[p], <<"**", label, ":**">>)}

\* the options entryToMarkdown rendered the output with
RenderedWith == Spread(DefaultOptions, output.options)

\* the field of the object is one the walk renders
Walked(data, field) ==
  /\ ~(field.uid \in SystemFieldUids /\ ~RenderedWith.includeSystemFields)
  /\ ~(RenderedWith.skipEmpty /\ EmptyValue(Prop(data, field.uid)))

\* the title comes first and the description second, the fields follow in the
\* order of the schema, and the title and description fields are not among them
SectionsInOrder ==
  LET schema == contentType.schema
      lines == output.text.lines
      title == Prop(entry, RenderedWith.titleField)
      description == Prop(entry, RenderedWith.descriptionField)
      hasTitle == title.t = "string" /\ title.v # ""
      hasDescription == description.t = "string" /\ description.v # ""
      second == IF hasTitle THEN 3 ELSE 1
      before == (IF hasTitle THEN 2 ELSE 0) + (IF hasDescription THEN 2 ELSE 0)
  IN /\ hasTitle =>
          /\ StartsWith(lines[1], Hashes(RenderedWith.headingLevel))
          /\ title.v \notin Blanks =>
               lines[1] = Hashes(RenderedWith.headingLevel) \o <<" ", title.v>>
     /\ hasDescription =>
          /\ Len(lines) >= second
          /\ StartsWith(lines[second], <<">">>)
          /\ description.v \notin Blanks => lines[second] = <<">", " ", description.v>>
     /\ \A i \in 1..Len(schema) :
          /\ \A p \in MarkersOf(output.text, Label(schema[i])) : p > before
          /\ schema[i].uid \in {RenderedWith.titleField, RenderedWith.descriptionField}
               => MarkersOf(output.text, Label(schema[i])) = {}
          /\ \A j \in (i + 1)..Len(schema) :
               \A p \in MarkersOf(output.text, Label(schema[i])) :
                 \A q \in MarkersOf(output.text, Label(schema[j])) : p < q

\* the group and blocks fields the walk renders
Sections ==
  {field \in FieldsOfType("group") \cup FieldsOfType("blocks") :
     /\ field.uid \notin {RenderedWith.titleField, RenderedWith.descriptionField}
     /\ Walked(entry, field)}

\* the groups and blocks fields rendered inside a non-repeatable group that
\* is rendered as headings
NestedSections ==
  UNION {LET value == Prop(entry, group.uid)
             fields == OrEmpty(group.schema)
         IN IF group.data_type = "group" /\ ~group.multiple /\ value.t = "object"
               /\ (hasNestedGroups(fields) \/ ~RenderedWith.useTables)
            THEN {fields[i] : i \in {k \in 1..Len(fields) :
                                       /\ fields[k].data_type \in {"group", "blocks"}
                                       /\ Walked(value, fields[k])}}
            ELSE {} :
         group \in Sections}

\* the titles of the block items rendered for a blocks field of the entry
BlockTitles ==
  UNION {LET blocks == OrEmpty(field.blocks)
         IN {IF blocks[i].title # "" THEN blocks[i].title ELSE blocks[i].uid :
               i \in {k \in 1..Len(blocks) :
                        \E item \in ItemsOf(field) : VariantKeys(item) = {blocks[k].uid}}} :
         field \in Sections \cap FieldsOfType("blocks")}

\* the heading of every group or blocks field of the entry is at fieldLevel;
\* the headings of the groups nested in a group and of the items of a blocks
\* field are at subLevel
HeadingsAt(fieldLevel, subLevel) ==
  /\ \A field \in Sections :
       /\ HeadingsOf(output.text, Label(field), fieldLevel) # {}
       /\ MarkersOf(output.text, Label(field)) = HeadingsOf(output.text, Label(field), fieldLevel)
  /\ \A field \in NestedSections :
       HeadingsOf(output.text, Label(field), subLevel) # {}
  /\ \A title \in BlockTitles :
       \E p \in 1..Len(output.text.lines) :
         StartsWith(output.text.lines[p], Hashes(subLevel) \o <<" ", title>>)

\* C18 amended: entryToMarkdown emits the title field (when a non-empty
\* string) first as a heading at the configured level, then the description
\* field (when a non-empty string) as a blockquote, then the remaining fields
\* in schema order, never the title or description field again; the heading
\* of a group or blocks field of the entry is at the configured level plus
\* one, the headings of the groups nested in it and of the items of a blocks
\* field at the configured level plus two, and no heading is deeper than 6.
C18_SectionOrder ==
  (output.op = "entryToMarkdown" /\ ~output.text.throw) =>
    /\ SectionsInOrder
    /\ HeadingsAt(Min(RenderedWith.headingLevel + 1, 6), Min(RenderedWith.headingLevel + 2, 6))

\* a title, a blocks field and a block item rendered at heading level 6
C18_Witness ==
  /\ output.op = "entryToMarkdown" /\ ~output.text.throw
  /\ RenderedWith.headingLevel = 6
  /\ HeadingsOf(output.text, "Hello", 6) = {1}
  /\ HeadingsOf(output.text, "sections", 6) # {}
  /\ "Hero" \in BlockTitles

\* C18 as stated: the sections come in the fixed order and every group or
\* blocks heading is at the configured level plus one.
C18_HeadingsOneBelowTitle ==
  (output.op = "entryToMarkdown" /\ ~output.text.throw) =>
    /\ SectionsInOrder
    /\ HeadingsAt(RenderedWith.headingLevel + 1, RenderedWith.headingLevel + 1)

\* an object whose taxonomy_uid and term_uid are both non-empty strings
TermPair(item) ==
  /\ item.t = "object"
  /\ \A key \in {"taxonomy_uid", "term_uid"} :
       Get(item, key).t = "string" /\ Get(item, key).v # ""

\* C21 as stated: a taxonomy field accepts a value if and only if it is a
\* sequence of objects whose taxonomy_uid and term_uid are both non-empty
\* strings; an element with a missing, non-string or empty one is rejected.
C21_TaxonomyPairs ==
  (full.kind \in {"success", "failure"} /\ entry.t = "object") =>
    \A field \in FieldsOfType("taxonomy") :
      LET value == Get(entry, field.uid)
      IN (value.t \notin {"undefined", "null"} /\ ~field.multiple) =>
           (Accepts(field, value) <=>
              /\ value.t = "array"
              /\ \A j \in 1..Len(value.v) : TermPair(value.v[j]))

\* the group field taken once: one object of the group
OneOfGroup(field) == [field EXCEPT !.multiple = FALSE, !.mandatory = TRUE]

\* a valid group object that carries no _metadata or an object as _metadata
GroupItem(field, item) ==
  /\ Accepts(OneOfGroup(field), item)
  /\ Get(item, "_metadata").t \in {"undefined", "object"}

\* C22 as stated: a repeated group with max_instance = k > 0 accepts a
\* sequence of valid group objects if and only if its length is at most k,
\* whatever the content of the _metadata object an element carries.
C22_RepeatedGroupCap ==
  (full.kind \in {"success", "failure"} /\ entry.t = "object") =>
    \A field \in FieldsOfType("group") :
      LET value == Get(entry, field.uid)
      IN (/\ field.multiple
          /\ field.max_instance > 0
          /\ value.t = "array"
          /\ \A j \in 1..Len(value.v) : GroupItem(field, value.v[j])) =>
           (Accepts(field, value) <=> Len(value.v) <= field.max_instance)

\* the inline marks in the order the claim gives, with what each one writes
\* before and after the text
InlineMarks ==
  <<"bold", "italic", "underline", "strikethrough", "code", "superscript", "subscript">>
Opening ==
  [bold |-> "**", italic |-> "*", underline |-> "<u>", strikethrough |-> "~~",
   code |-> Backtick, superscript |-> "<sup>", subscript |-> "<sub>"]
Closing ==
  [bold |-> "**", italic |-> "*", underline |-> "</u>", strikethrough |-> "~~",
   code |-> Backtick, superscript |-> "</sup>", subscript |-> "</sub>"]

\* the marks that are set on the node, bold first
SetMarks(node) == SelectSeq(InlineMarks, LAMBDA key : Truthy(Prop(node, key)))

\* the text of the leaf inside the wrappers of its set marks, the last one outermost
Wrapped(node) ==
  LET set == SetMarks(node)
      n == Len(set)
      s == Prop(node, "text").v
  IN [i \in 1..n |-> Opening[set[n + 1 - i]]]
       \o (IF s = "" THEN << >> ELSE <<s>>)
       \o [i \in 1..n |-> Closing[set[i]]]

IsTextLeaf(node) == node.t = "object" /\ Prop(node, "text").t = "string"

\* C23: jsonRteToMarkdown renders a text leaf as its text inside the wrappers
\* of the marks that are set, in the fixed order bold (innermost), italic,
\* underline, strikethrough, code, superscript, subscript (outermost), also
\* when the text is empty.
C23_InlineMarks ==
  (output.op = "jsonRteToMarkdown" /\ IsTextLeaf(output.node)) =>
    output.text = Text(<<Wrapped(output.node)>>)

\* a bold leaf with empty text has been rendered as the two wrappers alone
C23_Witness ==
  /\ output.op = "jsonRteToMarkdown"
  /\ output.node = Obj([text |-> Str(""), bold |-> Bool(TRUE)])
  /\ output.text = Text(<< <<"**", "**">> >>)

\* a table node, its children of type tr or row, and the cells of a row
IsTable(node) ==
  node.t = "object" /\ Prop(node, "type") = Str("table") /\ Prop(node, "text").t # "string"

ListOf(value) == IF value.t = "array" THEN value.v ELSE << >>

TableRows(node) ==
  SelectSeq(ListOf(Prop(node, "children")),
            LAMBDA c : c.t = "object" /\ Prop(c, "type") \in {Str("tr"), Str("row")})

Cells(row) == ListOf(Prop(row, "children"))

\* the cell delimiters of a line: the pipes that no backslash precedes
UnescapedPipes(line) == Cardinality({i \in 1..Len(line) : line[i] \in {"|", "a|b"}})

DashCells(line) == Cardinality({i \in 1..Len(line) : line[i] = "---"})

\* "| " + cells.join(" | ") + " |"
PipeLine(cells) ==
  CatAll(<<Toks(<<"|", " ">>), JoinText(cells, Toks(<<" ", "|", " ">>)), Toks(<<" ", "|">>)>>)

\* the line of a row: its cells rendered, trimmed and put on one line
RowLine(row) ==
  PipeLine([j \in 1..Len(Cells(row)) |->
              Text(<<[k \in 1..Len(OneLine(Trim(jsonRteToMarkdown(Cells(row)[j])).lines)) |->
                        EscapePipes(OneLine(Trim(jsonRteToMarkdown(Cells(row)[j])).lines)[k])]>>)])

\* the text is the table of the rows: a line per row in order, one separator
\* line after the first, then the blank line that ends the block
IsTableOf(text, rows) ==
  /\ ~text.throw
  /\ Len(text.lines) = Len(rows) + 3
  /\ text.lines[Len(rows) + 2] = << >> /\ text.lines[Len(rows) + 3] = << >>
  /\ Text(<<text.lines[2]>>) = PipeLine([j \in 1..Len(Cells(rows[1])) |-> Tok("---")])
  /\ DashCells(text.lines[2]) = Len(Cells(rows[1]))
  /\ \A i \in 1..Len(rows) :
       LET line == text.lines[IF i = 1 THEN 1 ELSE i + 1]
       IN /\ Text(<<line>>) = RowLine(rows[i])
          /\ Len(Cells(rows[i])) > 0 => UnescapedPipes(line) = Len(Cells(rows[i])) + 1

\* C24 as stated: a table node with at least one child of type tr or row
\* renders as one pipe-delimited line per row in order and one separator line
\* after the first row with as many --- cells as the first row has cells,
\* every row line holding one unescaped delimiter around each of its cells;
\* a table without such a child renders as the empty string.
C24_TableLines ==
  (output.op = "jsonRteToMarkdown" /\ IsTable(output.node)) =>
    IF Len(TableRows(output.node)) = 0 THEN output.text = EmptyText
    ELSE IsTableOf(output.text, TableRows(output.node))

\* the line at position p comes right after a horizontal rule and a blank line
RuleBefore(text, p) ==
  p >= 3 /\ text.lines[p - 2] = <<"---">> /\ text.lines[p - 1] = << >>

\* the fields of the schema the top-level walk renders
TopLevelFields ==
  {field \in Range(contentType.schema) :
     /\ field.uid \notin {RenderedWith.titleField, RenderedWith.descriptionField}
     /\ Walked(entry, field)}

\* the field is rendered as a section under a heading of its own
IsSection(field) ==
  \/ field.data_type \in {"group", "blocks", "file"}
  \/ field.data_type = "json" /\ field.allow_json_rte

\* every section of the walk has its heading, every marker of a field in
\* ruled has the rule before it and no marker of another field has
RulesBefore(ruled) ==
  \A field \in TopLevelFields :
    /\ field \in Sections => MarkersOf(output.text, Label(field)) # {}
    /\ \A p \in MarkersOf(output.text, Label(field)) :
         RuleBefore(output.text, p) <=> field \in ruled

\* C25 amended: in the output of the top-level walk of entryToMarkdown a
\* horizontal-rule line "---" and a blank line come immediately before the
\* heading of every group, repeated-group, blocks, file and JSON-rich-text
\* section and before the line of every multiple text field, and no
\* horizontal rule comes before the line of any other primitive field.
C25_RuleBeforeSectionsAndKeywords ==
  (output.op = "entryToMarkdown" /\ ~output.text.throw) =>
    RulesBefore({field \in TopLevelFields :
                   IsSection(field) \/ (field.multiple /\ field.data_type = "text")})

\* a multiple text field after a rule, a multiple boolean field and a date
\* without one
C25_Witness ==
  /\ output.op = "entryToMarkdown" /\ ~output.text.throw
  /\ \E p \in MarkersOf(output.text, "keywords") : RuleBefore(output.text, p)
  /\ \E p \in MarkersOf(output.text, "when") : ~RuleBefore(output.text, p)
  /\ \E p \in MarkersOf(output.text, "flags") : ~RuleBefore(output.text, p)
  /\ \E p \in MarkersOf(output.text, "data") : ~RuleBefore(output.text, p)

\* C25 as stated: a horizontal rule comes immediately before every group,
\* repeated-group, blocks, file and JSON-rich-text section, and before no
\* other primitive field, scalar or multiple.
C25_RuleBeforeSectionsOnly ==
  (output.op = "entryToMarkdown" /\ ~output.text.throw) =>
    RulesBefore({field \in TopLevelFields : IsSection(field)})

\* the positions of the horizontal-rule lines and of the heading lines
RulesOf(text) == {p \in 1..Len(text.lines) : text.lines[p] = <<"---">>}
HeadingLinesOf(text) == {p \in 1..Len(text.lines) : StartsWith(text.lines[p], <<"#">>)}

\* the positions of the headings of the top-level sections
FieldHeadings ==
  UNION {HeadingsOf(output.text, Label(field), Min(RenderedWith.headingLevel + 1, 6)) :
           field \in Sections}

\* the positions of the headings of the instances rendered for the blocks
\* field: the heading lines after the heading of the field and before the
\* heading of the next section
InstanceHeadings(field) ==
  LET own == HeadingsOf(output.text, Label(field), Min(RenderedWith.headingLevel + 1, 6))
  IN {b \in HeadingLinesOf(output.text) \ FieldHeadings :
        \E h \in own : h < b /\ \A g \in FieldHeadings : ~(h < g /\ g < b)}

\* the number of items of the array that match a declared block definition
RenderedInstances(field) ==
  LET items == Prop(entry, field.uid)
  IN IF items.t # "array" THEN 0
     ELSE Cardinality({i \in 1..Len(items.v) :
                         /\ items.v[i].t = "object"
                         /\ VariantKeys(items.v[i]) # {}
                         /\ VariantKeys(items.v[i]) \subseteq BlockUids(field)})

\* the field's section has one heading per rendered instance, the first right
\* under the heading of the field and every other one right after a rule and a
\* blank line; every rule of the output is the rule of a section or one of
\* these, and the output does not end with a rule
SeparatorsBetween(field) ==
  /\ Cardinality(InstanceHeadings(field)) = RenderedInstances(field)
  /\ \A b \in InstanceHeadings(field) :
       IF b - 2 \in FieldHeadings THEN output.text.lines[b - 1] = << >>
       ELSE RuleBefore(output.text, b)
  /\ Cardinality({b \in InstanceHeadings(field) : b - 2 \in FieldHeadings}) <= 1
  /\ Cardinality({p \in RulesOf(output.text) : p + 2 \in InstanceHeadings(field)})
       = (IF RenderedInstances(field) = 0 THEN 0 ELSE RenderedInstances(field) - 1)

\* C26: when a call of entryToMarkdown returns, the section of each blocks
\* field with n >= 1 items that match a declared block definition holds
\* exactly n - 1 separator lines "---", one right before the heading of every
\* rendered instance but the first, and none after the last rendered
\* instance, also when the array ends with items that are skipped; every
\* other "---" line of the output is the rule before a section's heading.
C26_SeparatorsBetweenInstances ==
  (output.op = "entryToMarkdown" /\ ~output.text.throw /\ FieldsOfType("blocks") # {}) =>
    /\ \A field \in Sections : SeparatorsBetween(field)
    /\ \A p \in RulesOf(output.text) :
         /\ p + 2 <= Len(output.text.lines)
         /\ output.text.lines[p + 1] = << >>
         /\ p + 2 \in FieldHeadings \cup UNION {InstanceHeadings(field) : field \in Sections}

\* three instances rendered from an array of five items that ends with two
\* skipped ones: two separators, none after the last instance
C26_Witness ==
  /\ output.op = "entryToMarkdown" /\ ~output.text.throw
  /\ \E field \in Sections :
       /\ Prop(entry, field.uid).t = "array"
       /\ Len(Prop(entry, field.uid).v) = 5
       /\ RenderedInstances(field) = 3
       /\ Cardinality({p \in RulesOf(output.text) : p + 2 \in InstanceHeadings(field)}) = 2
  /\ output.text.lines[Len(output.text.lines)] # <<"---">>

\* the number of '#' a line starts with
LeadingHashes(line) ==
  Cardinality({k \in 1..Len(line) : \A i \in 1..k : line[i] = "#"})

\* C27: every heading line of the output of entryToMarkdown starts with 1 to
\* 6 '#' and a space, for every starting level from 1 to 6 and every depth of
\* groups and blocks; a heading whose level is computed above 6 is there with
\* exactly 6 '#'.
C27_HeadingLevelClamped ==
  (output.op = "entryToMarkdown" /\ ~output.text.throw) =>
    /\ \A p \in HeadingLinesOf(output.text) :
         /\ LeadingHashes(output.text.lines[p]) \in 1..6
         /\ Len(output.text.lines[p]) > LeadingHashes(output.text.lines[p])
         /\ output.text.lines[p][LeadingHashes(output.text.lines[p]) + 1] = " "
    /\ RenderedWith.headingLevel >= 5 =>
         /\ \A field \in NestedSections : HeadingsOf(output.text, Label(field), 6) # {}
         /\ \A title \in BlockTitles :
              \E p \in 1..Len(output.text.lines) :
                StartsWith(output.text.lines[p], Hashes(6) \o <<" ", title>>)
    /\ RenderedWith.headingLevel = 6 =>
         \A field \in Sections : HeadingsOf(output.text, Label(field), 6) # {}

\* at starting level 6 the heading of a group, computed at level 7, and of a
\* group nested in it, computed at level 8, both with six '#'
C27_Witness ==
  /\ output.op = "entryToMarkdown" /\ ~output.text.throw
  /\ RenderedWith.headingLevel = 6
  /\ HeadingsOf(output.text, "stats", 6) # {}
  /\ HeadingsOf(output.text, "meta", 6) # {}
  /\ \A p \in HeadingLinesOf(output.text) : LeadingHashes(output.text.lines[p]) = 6

\* the repeatable groups of the entry rendered as a table with rows: the value
\* is a non-empty array
RepeatableGroups ==
  {field \in Sections :
     /\ field.data_type = "group" /\ field.multiple
     /\ Prop(entry, field.uid).t = "array"
     /\ Len(Prop(entry, field.uid).v) > 0}

\* the columns of the table of a repeatable group
VisibleColumns(field) ==
  SelectSeq(OrEmpty(field.schema),
            LAMBDA f : /\ f.uid \notin SystemFieldUids
                       /\ (RenderedWith.includeSystemFields \/ ~StartsWithUnderscore(f.uid)))

\* the table that starts at line p: a header, a separator and one row per
\* instance and no row more, the row of an instance after the rows of the
\* instances before it, and pipes many delimiters on every line
TableAt(p, field, pipes) ==
  LET lines == output.text.lines
      items == Prop(entry, field.uid).v
      first == VisibleColumns(field)[1]
  IN /\ Len(lines) >= p + 1 + Len(items)
     /\ \A q \in p..(p + 1 + Len(items)) :
          StartsWith(lines[q], <<"|", " ">>) /\ UnescapedPipes(lines[q]) = pipes
     /\ DashCells(lines[p + 1]) = Len(VisibleColumns(field))
     /\ Len(lines) > p + 1 + Len(items) => ~StartsWith(lines[p + 2 + Len(items)], <<"|">>)
     /\ \A i \in 1..Len(items) :
          LET value == Prop(items[i], first.uid)
          IN (first.data_type = "text" /\ value.t = "string" /\ value.v \notin Blanks \cup {""})
               => lines[p + 1 + i][3] = EscapePipes(value.v)

\* C28 as stated: every line of the table of a repeatable group (header,
\* separator, one row per instance) has the same number of unescaped '|'
\* delimiters, whatever the display names and cell values, those that hold a
\* '|' included; the table has exactly one row per instance, in instance
\* order.
C28_TableColumnsAligned ==
  (output.op = "entryToMarkdown" /\ ~output.text.throw) =>
    \A field \in RepeatableGroups :
      Len(VisibleColumns(field)) > 0 =>
        \A h \in HeadingsOf(output.text, Label(field), Min(RenderedWith.headingLevel + 1, 6)) :
          \E pipes \in 1..(2 * Len(VisibleColumns(field)) + 1) : TableAt(h + 2, field, pipes)

\* the values the object stores under the system fields its schema declares
DeclaredUnderSystemUid(value, schema) ==
  IF value.t # "object" THEN {}
  ELSE {value.v[schema[i].uid] :
          i \in {j \in 1..Len(schema) :
                   schema[j].uid \in SystemFieldUids /\ schema[j].uid \in DOMAIN value.v}}

\* the values of the schema-declared system fields in every context of the
\* walk: the entry, its groups, the items of its repeatable groups and the
\* payloads of its block items
RECURSIVE DeclaredSystemValues(_, _)
DeclaredSystemValues(value, schema) ==
  DeclaredUnderSystemUid(value, schema)
  \cup UNION {
    LET field == schema[i]
        fieldValue == Prop(value, field.uid)
        items == IF fieldValue.t = "array" THEN fieldValue.v ELSE << >>
    IN CASE field.data_type = "group" /\ ~field.multiple ->
              DeclaredSystemValues(fieldValue, OrEmpty(field.schema))
         [] field.data_type = "group" /\ field.multiple ->
              UNION {DeclaredSystemValues(items[j], OrEmpty(field.schema)) : j \in 1..Len(items)}
         [] field.data_type = "blocks" ->
              UNION {UNION {DeclaredSystemValues(Prop(items[j], OrEmpty(field.blocks)[b].uid),
                                                 OrEmpty(OrEmpty(field.blocks)[b].schema)) :
                              b \in 1..Len(OrEmpty(field.blocks))} :
                     j \in 1..Len(items)}
         [] OTHER -> {} :
    i \in 1..Len(schema)}

\* C29 as stated: with includeSystemFields true the non-empty value of every
\* schema-declared system field is in the output of entryToMarkdown, in
\* every context: the top level, a group's two-column table, a group rendered
\* as headings, a block item and a column of a repeatable group's table.
C29_SystemFieldsEverywhere ==
  (output.op = "entryToMarkdown" /\ RenderedWith.includeSystemFields /\ ~output.text.throw) =>
    \A value \in DeclaredSystemValues(entry, contentType.schema) :
      (value.t = "string" /\ ~EmptyValue(value)) => value.v \in Tokens(output.text)

\* the options without the keys that are undefined
WithoutUndefined(options) == [key \in DOMAIN options \ {"undefined"} |-> options[key]]

\* C30 as stated: an option whose key is present and undefined falls back to
\* its default: entryToMarkdown returns what it returns without the key, and
\* does not raise where that call does not.
C30_UndefinedOptionIsDefault ==
  (output.op = "entryToMarkdown" /\ UndefinedKeys(output.options) # {}) =>
    output.text = RenderEntry(entry, contentType,
                              Spread(DefaultOptions, WithoutUndefined(output.options)))

====
